---- MODULE Spec2Model ----
(***************************************************************************)
(* The paper-management backend:                                           *)
(*   app/services/citation_service.py  (network builder, influence)        *)
(*   app/api/v1/citations.py           (the citation endpoints)            *)
(*   app/api/v1/papers.py, auth.py     (library, tokens)                   *)
(*   app/core/security.py, security_utils.py (token checks)                *)
(*   app/services/ai_service.py        (batches)                           *)
(*   app/services/paper_service.py     (submission and AI processing)      *)
(*   app/services/celery_app.py, celery_tasks.py (the background tasks)    *)
(*   app/api/decorators.py             (the rate limiter)                  *)
(*   app/db/models.py, app/db/queries/paper_queries.py (the stores)        *)
(***************************************************************************)
EXTENDS Integers, Sequences, FiniteSets, TLC

\* ------------------------------------------------------------------ bounds
\* Papers of the bounded stores carry the ids 1..MaxPaperId.
MaxPaperId == 3
\* A bounded store holds at most MaxCitations citation rows.
MaxCitations == 2
\* depth is drawn from 0..MaxDepth, max_papers from 1..MaxMaxPapers.
MaxDepth == 2
MaxMaxPapers == 3
\* A paper of a star store has at most MaxCiters citers, each with a
\* citation_count in 0..MaxCount.
MaxCiters == 3
MaxCount == 3
\* The library holds at most MaxLibrary user-paper rows.
MaxLibrary == 1
\* Each citer of the paper of the large store is cited by ManyCiters papers.
ManyCiters == 110
\* The influence of a paper is asked for when at most MaxRows rows cite it.
MaxRows == 5
\* batch_process_papers gets at most MaxPapers papers and a batch_size up to
\* MaxBatchSize.
MaxPapers == 4
MaxBatchSize == 3
\* At most MaxTokenPairs token pairs are issued.
MaxTokenPairs == 2
\* The beat task queues papers while the queue then holds at most MaxQueue messages;
\* a submission starts while fewer than MaxSubmitted Paper rows exist.
MaxQueue == 1
MaxSubmitted == 2
\* requests_per_minute is drawn from 1..MaxRequestsPerMinute; a request starts
\* while fewer than MaxAdmitted requests were admitted in the window.
MaxRequestsPerMinute == 2
MaxAdmitted == 5

VARIABLES
    papers,        \* Paper rows: id -> row
    citations,     \* Citation rows
    user_papers,   \* UserPaper rows
    call,          \* build_citation_network invocations: call id -> locals
    inf,           \* the calculate_paper_influence invocation: its locals
    req,           \* the request an endpoint is serving
    batch,         \* the batch_process_papers invocation: its locals
    auth,          \* users, issued tokens and the request the auth layer serves
    proc,          \* paper processing: Paper rows, task queue, workers, submissions
    limiter        \* the rate limiter: the counter of one key and its requests

vars == <<papers, citations, user_papers, call, inf, req, batch, auth, proc, limiter>>

\* ------------------------------------------------------------------- store
\* Paper.id values of the bounded stores; 0 is a UUID that no paper bears.
PaperIds == 1..MaxPaperId
RequestIds == 0..MaxPaperId

\* str(uuid): the canonical text of a UUID; UUID(text): the UUID a text denotes.
str(u) == [text |-> u]
UUID(s) == s.text

\* Citation rows: unique_citation makes (citing, cited) a key, and both columns
\* are foreign keys into papers.
CitationRow(citing, cited) == [citing_paper_id |-> citing, cited_paper_id |-> cited]

CitationRowsOver(ids) == {CitationRow(a, b) : a \in ids, b \in ids}

RECURSIVE SubsetsUpTo(_, _)
SubsetsUpTo(S, n) ==
    IF n = 0 \/ S = {} THEN {{}}
    ELSE LET x == CHOOSE y \in S : TRUE
             rest == SubsetsUpTo(S \ {x}, n)
             with == {T \cup {x} : T \in SubsetsUpTo(S \ {x}, n - 1)}
         IN rest \cup with

None == [none |-> TRUE]

\* Paper row: the cached citation_count and influence_score columns, and
\* publication_date, kept as [days |-> the whole days from it to datetime.now()]
\* (None when it is NULL).
PaperRow(count, days) ==
    [citation_count |-> count, publication_days |-> days, influence_score |-> 0]

\* db.query(Paper).filter(Paper.id == id).first()
PaperFirst(id) == IF id \in DOMAIN papers THEN papers[id] ELSE None

\* db.query(Citation).filter(Citation.cited_paper_id == id)
CitingCitations(id) == {c \in citations : c.cited_paper_id = id}
\* db.query(Citation).filter(Citation.citing_paper_id == id)
CitedCitations(id) == {c \in citations : c.citing_paper_id = id}

\* .all() without ORDER BY: the rows of the result in any order.
AllOrders(S) ==
    {s \in [1..Cardinality(S) -> S] : \A x \in S : \E i \in DOMAIN s : s[i] = x}

\* The scenario store: A = 1 is cited by B = 2 and C = 3; B is cited by D = 4.
ScenarioPapers == [id \in 1..4 |-> PaperRow(0, None)]
ScenarioCitations == {CitationRow(2, 1), CitationRow(3, 1), CitationRow(4, 2)}
ScenarioInput == [center |-> 1, depth |-> 2, max_papers |-> 10]

\* A store with a self-citation (1 cites 1), a mutual citation (1 and 2 cite
\* each other) and a citation cycle 1 -> 2 -> 3 -> 1.
CyclePapers == [id \in 1..3 |-> PaperRow(0, None)]
CycleCitations ==
    {CitationRow(1, 1), CitationRow(1, 2), CitationRow(2, 1),
     CitationRow(2, 3), CitationRow(3, 1)}

\* ------------------------------------------------- build_citation_network
CallIds == {"first", "second"}

\* The locals of a call; they stay in the record once the call has ended, as
\* the record of what the call built.
IdleCall ==
    [pc |-> "idle", center_paper_id |-> str(0), depth |-> 0, max_papers |-> 0,
     nodes |-> <<>>, edges |-> <<>>, visited |-> {}, queue |-> <<>>,
     citation_queries |-> 0, error |-> "none"]

\* nodes is a dict: insertion-ordered, one entry per key.
DictKeys(d) == {d[i].id : i \in DOMAIN d}
DictPut(d, node) ==
    IF node.id \in DictKeys(d)
    THEN [i \in DOMAIN d |-> IF d[i].id = node.id THEN node ELSE d[i]]
    ELSE Append(d, node)

\* Mutant: queue[0] is read and the head stays in the queue.
PopKeepsHead(queue) == queue

\* queue.pop(0): what is left of the queue
Pop(queue) == Tail(queue)

\* Mutant: the missing center paper is not noticed.
CenterNotFoundIgnored(center_paper) == FALSE

\* if not center_paper: raise ValueError
CenterNotFound(center_paper) == center_paper = None

\* if not paper: continue
PaperNotFound(paper) == paper = None

\* Mutant: len(nodes) <= max_papers.
WhileCondInclusive(cl) == cl.queue # <<>> /\ Len(cl.nodes) <= cl.max_papers

\* while queue and len(nodes) < max_papers
WhileCond(cl) == cl.queue # <<>> /\ Len(cl.nodes) < cl.max_papers

\* Mutant: visited is one set shared by the calls.
DiscardedShared(cl, current_paper_id, current_depth) ==
    \/ current_paper_id \in UNION {call[c].visited : c \in DOMAIN call}
    \/ current_depth > cl.depth

\* if current_paper_id in visited or current_depth > depth: continue
Discarded(cl, current_paper_id, current_depth) ==
    current_paper_id \in cl.visited \/ current_depth > cl.depth

\* Mutant: the comparison is inverted.
IsCenterInverted(cl, current_paper_id) == current_paper_id # cl.center_paper_id

\* "is_center": current_paper_id == center_paper_id
IsCenter(cl, current_paper_id) == current_paper_id = cl.center_paper_id

Node(cl, current_paper_id, current_depth, paper) ==
    [id |-> current_paper_id,
     citation_count |-> paper.citation_count,
     is_center |-> IsCenter(cl, current_paper_id),
     depth |-> current_depth]

\* Mutant: current_depth <= depth.
ExpandsAtLimit(cl, current_depth) == current_depth <= cl.depth

\* if current_depth < depth: read the citations in both directions
Expands(cl, current_depth) == current_depth < cl.depth

\* A text of n characters; the characters are told apart by their position.
Text(n) == [i \in 1..n |-> i]

\* context[:100]
ContextLimit == 100

\* The stored details of a citation row: Citation.context (Text, nullable) and
\* Citation.strength (Float, here in tenths), fixed for each pair of papers.
\* The contexts are absent, empty, short, ContextLimit long and longer.
StoredContexts ==
    <<None, [text |-> Text(0)], [text |-> Text(MaxPaperId)],
      [text |-> Text(ContextLimit)], [text |-> Text(ContextLimit + MaxPaperId)]>>

context(citation) ==
    StoredContexts[((citation.citing_paper_id + citation.cited_paper_id) % 5) + 1]

strength(citation) == (2 * citation.citing_paper_id + citation.cited_paper_id) % 11

\* citation.context[:100] if citation.context else ""
EdgeContext(citation) ==
    LET stored == context(citation)
    IN IF stored = None \/ stored.text = <<>> THEN <<>>
       ELSE SubSeq(stored.text, 1, IF Len(stored.text) < ContextLimit
                                   THEN Len(stored.text) ELSE ContextLimit)

\* Mutant: the two ends of the edge are exchanged.
EdgeReversed(source, target, citation) ==
    [source |-> target, target |-> source, strength |-> strength(citation),
     context |-> EdgeContext(citation), type |-> "cites"]

\* edges.append({"source": ..., "target": ..., "strength": ..., "context": ..., "type": "cites"})
Edge(source, target, citation) ==
    [source |-> source, target |-> target, strength |-> strength(citation),
     context |-> EdgeContext(citation), type |-> "cites"]

\* if neighbour not in visited: queue.append((neighbour, current_depth + 1))
\* Mutant: the neighbour is put at the head of the queue.
EnqueueAtHead(queue, visited, neighbour, current_depth) ==
    IF neighbour \notin visited
    THEN <<<<neighbour, current_depth + 1>>>> \o queue
    ELSE queue

\* if neighbour not in visited: queue.append((neighbour, current_depth + 1))
Enqueue(queue, visited, neighbour, current_depth) ==
    IF neighbour \notin visited
    THEN Append(queue, <<neighbour, current_depth + 1>>)
    ELSE queue

\* for citation in citing_citations: edge citing -> current, enqueue citing
RECURSIVE ForCitingCitations(_, _, _, _, _)
ForCitingCitations(rows, current_paper_id, current_depth, visited, acc) ==
    IF rows = <<>> THEN acc
    ELSE LET citation == Head(rows)
             citing_paper_id == str(citation.citing_paper_id)
         IN ForCitingCitations(Tail(rows), current_paper_id, current_depth, visited,
                [edges |-> Append(acc.edges, Edge(citing_paper_id, current_paper_id, citation)),
                 queue |-> Enqueue(acc.queue, visited, citing_paper_id, current_depth)])

\* for citation in cited_citations: edge current -> cited, enqueue cited
RECURSIVE ForCitedCitations(_, _, _, _, _)
ForCitedCitations(rows, current_paper_id, current_depth, visited, acc) ==
    IF rows = <<>> THEN acc
    ELSE LET citation == Head(rows)
             cited_paper_id == str(citation.cited_paper_id)
         IN ForCitedCitations(Tail(rows), current_paper_id, current_depth, visited,
                [edges |-> Append(acc.edges, Edge(current_paper_id, cited_paper_id, citation)),
                 queue |-> Enqueue(acc.queue, visited, cited_paper_id, current_depth)])

\* The call starts: its arguments are bound.
StartedCall(center_paper_id, depth, max_papers) ==
    [IdleCall EXCEPT !.pc = "start", !.center_paper_id = center_paper_id,
                     !.depth = depth, !.max_papers = max_papers]

BuildCitationNetwork(c, center, depth, max_papers) ==
    /\ call[c].pc = "idle"
    /\ call' = [call EXCEPT ![c] = StartedCall(str(center), depth, max_papers)]
    /\ UNCHANGED <<batch, auth, papers, citations, user_papers, inf, req, proc, limiter>>

\* Lines 31-39: the center paper is looked up; the traversal state is set up.
GetCenterPaper(c) ==
    LET cl == call[c]
        center_paper == PaperFirst(UUID(cl.center_paper_id))
    IN /\ cl.pc = "start"
       /\ call' = [call EXCEPT ![c] =
              IF CenterNotFound(center_paper)
              THEN [cl EXCEPT !.pc = "raised", !.error = "ValueError"]
              ELSE [cl EXCEPT !.pc = "loop",
                              !.queue = <<(<<cl.center_paper_id, 0>>)>>]]
       /\ UNCHANGED <<batch, auth, papers, citations, user_papers, inf, req, proc, limiter>>

\* Lines 41-108: one iteration of the while loop.
WhileIteration(c) ==
    LET cl == call[c]
        current_paper_id == Head(cl.queue)[1]
        current_depth == Head(cl.queue)[2]
        popped == Pop(cl.queue)
        visited == cl.visited \cup {current_paper_id}
        paper == PaperFirst(UUID(current_paper_id))
    IN /\ cl.pc = "loop"
       /\ WhileCond(cl)
       /\ IF Discarded(cl, current_paper_id, current_depth)
          THEN call' = [call EXCEPT ![c] = [cl EXCEPT !.queue = popped]]
          ELSE IF PaperNotFound(paper)
          THEN call' = [call EXCEPT ![c] =
                   [cl EXCEPT !.queue = popped, !.visited = visited]]
          ELSE LET nodes == DictPut(cl.nodes,
                                Node(cl, current_paper_id, current_depth, paper))
               IN IF ~Expands(cl, current_depth)
                  THEN call' = [call EXCEPT ![c] =
                           [cl EXCEPT !.queue = popped, !.visited = visited,
                                      !.nodes = nodes]]
                  ELSE \E citing_citations \in AllOrders(CitingCitations(UUID(current_paper_id))),
                          cited_citations \in AllOrders(CitedCitations(UUID(current_paper_id))) :
                         LET after_citing ==
                                 ForCitingCitations(citing_citations, current_paper_id,
                                     current_depth, visited,
                                     [edges |-> cl.edges, queue |-> popped])
                             after_cited ==
                                 ForCitedCitations(cited_citations, current_paper_id,
                                     current_depth, visited, after_citing)
                         IN call' = [call EXCEPT ![c] =
                                [cl EXCEPT !.queue = after_cited.queue,
                                           !.visited = visited,
                                           !.nodes = nodes,
                                           !.edges = after_cited.edges,
                                           !.citation_queries = @ + 2]]
       /\ UNCHANGED <<batch, auth, papers, citations, user_papers, inf, req, proc, limiter>>

\* The while condition is false: control reaches line 111.
WhileExit(c) ==
    LET cl == call[c]
    IN /\ cl.pc = "loop"
       /\ ~WhileCond(cl)
       /\ call' = [call EXCEPT ![c] = [cl EXCEPT !.pc = "construct"]]
       /\ UNCHANGED <<batch, auth, papers, citations, user_papers, inf, req, proc, limiter>>

\* A db.query raises (lines 31, 50, 69, 90): the except clause logs and re-raises.
QueryRaises(c) ==
    LET cl == call[c]
    IN /\ \/ cl.pc = "start"
          \/ /\ cl.pc = "loop"
             /\ WhileCond(cl)
             /\ ~Discarded(cl, Head(cl.queue)[1], Head(cl.queue)[2])
       /\ call' = [call EXCEPT ![c] =
              [cl EXCEPT !.pc = "raised", !.error = "StoreFailure"]]
       /\ UNCHANGED <<batch, auth, papers, citations, user_papers, inf, req, proc, limiter>>

\* Lines 111-120: node_list = list(nodes.values()); CitationNetwork(...).
\* The keyword arguments of the call and the keys of the node and edge dicts:
NetworkArguments ==
    {"nodes", "edges", "center_paper_id", "depth", "total_papers", "total_citations"}
NodeKeys ==
    {"id", "title", "authors", "publication_year", "citation_count",
     "influence_score", "is_center", "depth"}
EdgeKeys == {"source", "target", "strength", "context", "type"}
\* The fields without a default of the three schemas:
CitationNetworkRequired ==
    {"nodes", "edges", "total_nodes", "total_edges", "center_paper_id"}
CitationNodeRequired == {"paper_id", "title"}
CitationEdgeRequired == {"source_id", "target_id"}

Validates(cl) ==
    /\ CitationNetworkRequired \subseteq NetworkArguments
    /\ cl.nodes # <<>> => CitationNodeRequired \subseteq NodeKeys
    /\ cl.edges # <<>> => CitationEdgeRequired \subseteq EdgeKeys

ConstructNetwork(c) ==
    LET cl == call[c]
    IN /\ cl.pc = "construct"
       /\ call' = [call EXCEPT ![c] =
              IF Validates(cl)
              THEN [cl EXCEPT !.pc = "returned"]
              ELSE [cl EXCEPT !.pc = "raised", !.error = "ValidationError"]]
       /\ UNCHANGED <<batch, auth, papers, citations, user_papers, inf, req, proc, limiter>>

\* ---------------------------------------------- calculate_paper_influence
EmptyDict == [keys |-> {}]

MetricKeys ==
    {"paper_id", "direct_citations", "second_order_citations", "h_index",
     "influence_score", "publication_age_years", "citation_rate_per_year",
     "percentile_rank", "field_normalized_score"}

IdleInfluence ==
    [pc |-> "idle", paper_id |-> str(0), direct_citations |-> 0,
     second_order_citations |-> 0, citing_citation_counts |-> <<>>,
     h_index |-> 0, error |-> "none", result |-> None]

\* db.query(Citation).filter(Citation.cited_paper_id == id).count()
DirectCitations(id) == Cardinality(CitingCitations(id))

\* Mutant: the citing papers are counted, not the rows.
SecondOrderCiters(id) ==
    LET citers == {c.citing_paper_id : c \in CitingCitations(id)}
    IN Cardinality({c.citing_paper_id : c \in {x \in citations : x.cited_paper_id \in citers}})

\* db.query(Citation).filter(Citation.cited_paper_id.in_(<citers of id>)).count()
SecondOrderCitations(id) ==
    LET citers == {c.citing_paper_id : c \in CitingCitations(id)}
    IN Cardinality({c \in citations : c.cited_paper_id \in citers})

\* db.query(Paper).join(Citation, Paper.id == Citation.citing_paper_id)
\*   .filter(Citation.cited_paper_id == id): the papers citing id
CitingPapers(id) == {c.citing_paper_id : c \in CitingCitations(id)}

RemoveAt(seq, i) == SubSeq(seq, 1, i - 1) \o SubSeq(seq, i + 1, Len(seq))

\* Mutant: sort() without reverse=True.
RECURSIVE SortAscending(_)
SortAscending(counts) ==
    IF counts = <<>> THEN <<>>
    ELSE LET i == CHOOSE k \in DOMAIN counts : \A j \in DOMAIN counts : counts[j] >= counts[k]
         IN <<counts[i]>> \o SortAscending(RemoveAt(counts, i))

\* citing_citation_counts.sort(reverse=True)
RECURSIVE SortReverse(_)
SortReverse(counts) ==
    IF counts = <<>> THEN <<>>
    ELSE LET i == CHOOSE k \in DOMAIN counts : \A j \in DOMAIN counts : counts[j] <= counts[k]
         IN <<counts[i]>> \o SortReverse(RemoveAt(counts, i))

\* if count >= i + 1 (i counts from 0)
CountReaches(count, i) == count >= i + 1

\* for i, count in enumerate(citing_citation_counts): ... else: break
RECURSIVE ForCounts(_, _, _)
ForCounts(counts, i, h_index) ==
    IF i >= Len(counts) THEN h_index
    ELSE IF CountReaches(counts[i + 1], i)
    THEN ForCounts(counts, i + 1, i + 1)
    ELSE h_index

Min(a, b) == IF a <= b THEN a ELSE b
Max(a, b) == IF a >= b THEN a ELSE b

\* Mutant: the score without min(..., 1.0).
InfluenceScoreUncapped(direct, second_order, h_index) ==
    5 * direct + 3 * second_order + 2 * h_index

\* min((direct * 0.5 + second_order * 0.3 + h_index * 0.2) / 100, 1.0), kept
\* as the exact number of thousandths.
InfluenceScore(direct, second_order, h_index) ==
    Min(5 * direct + 3 * second_order + 2 * h_index, 1000)

\* publication_age = (datetime.now() - paper.publication_date).days // 365
PublicationAge(paper) ==
    IF paper.publication_days = None THEN 0 ELSE paper.publication_days.days \div 365

\* Mutant: the rate without "if publication_age > 0 else 0".
CitationRateUnguarded(direct, publication_age) ==
    [num |-> direct, den |-> Max(publication_age, 1)]

\* direct_citations / max(publication_age, 1) if publication_age > 0 else 0,
\* kept as the fraction num/den.
CitationRate(direct, publication_age) ==
    IF publication_age > 0
    THEN [num |-> direct, den |-> Max(publication_age, 1)]
    ELSE [num |-> 0, den |-> 1]

\* The call starts: its argument is bound.
StartedInfluence(paper_id) ==
    [IdleInfluence EXCEPT !.pc = "start", !.paper_id = paper_id]

CalculatePaperInfluence(paper_id) ==
    /\ inf.pc = "idle"
    /\ inf' = StartedInfluence(str(paper_id))
    /\ UNCHANGED <<batch, auth, papers, citations, user_papers, call, req, proc, limiter>>

\* Lines 217-219; the ValueError is caught at line 280 and {} is returned.
InfluenceGetPaper ==
    LET paper == PaperFirst(UUID(inf.paper_id))
    IN /\ inf.pc = "start"
       /\ inf' = IF PaperNotFound(paper)
                 THEN [inf EXCEPT !.pc = "returned", !.error = "ValueError",
                                  !.result = EmptyDict]
                 ELSE [inf EXCEPT !.pc = "counting"]
       /\ UNCHANGED <<batch, auth, papers, citations, user_papers, call, req, proc, limiter>>

\* Lines 222-233: the two counts.
InfluenceCount ==
    /\ inf.pc = "counting"
    /\ inf' = [inf EXCEPT !.pc = "citers",
                          !.direct_citations = DirectCitations(UUID(inf.paper_id)),
                          !.second_order_citations = SecondOrderCitations(UUID(inf.paper_id))]
    /\ UNCHANGED <<batch, auth, papers, citations, user_papers, call, req, proc, limiter>>

\* Lines 236-251: the citers' counts, in the order the store returns the
\* papers, sorted descending, and the early-exit loop.
InfluenceHIndex ==
    /\ inf.pc = "citers"
    /\ \E citing_papers \in AllOrders(CitingPapers(UUID(inf.paper_id))) :
          LET citing_citation_counts ==
                  [i \in DOMAIN citing_papers |-> papers[citing_papers[i]].citation_count]
              sorted == SortReverse(citing_citation_counts)
          IN inf' = [inf EXCEPT !.pc = "scoring",
                                !.citing_citation_counts = citing_citation_counts,
                                !.h_index = ForCounts(sorted, 0, 0)]
    /\ UNCHANGED <<batch, auth, papers, citations, user_papers, call, req, proc, limiter>>

\* Mutant: the score is also written to the paper's influence_score column.
InfluenceReturnCaching ==
    LET id == UUID(inf.paper_id)
        score == InfluenceScore(inf.direct_citations, inf.second_order_citations,
                                inf.h_index)
    IN /\ inf.pc = "scoring"
       /\ inf' = [inf EXCEPT !.pc = "returned",
                             !.result = [keys |-> MetricKeys, influence_score |-> score]]
       /\ papers' = [papers EXCEPT ![id].influence_score = score]
       /\ UNCHANGED <<batch, auth, citations, user_papers, call, req, proc, limiter>>

\* Lines 253-278: the score, the age, the rate, and the metrics record.
InfluenceReturn ==
    LET paper == PaperFirst(UUID(inf.paper_id))
        publication_age == PublicationAge(paper)
    IN /\ inf.pc = "scoring"
       /\ inf' = [inf EXCEPT !.pc = "returned", !.result =
              [keys |-> MetricKeys,
               paper_id |-> inf.paper_id,
               direct_citations |-> inf.direct_citations,
               second_order_citations |-> inf.second_order_citations,
               h_index |-> inf.h_index,
               influence_score |-> InfluenceScore(inf.direct_citations,
                                      inf.second_order_citations, inf.h_index),
               publication_age_years |-> publication_age,
               citation_rate_per_year |-> CitationRate(inf.direct_citations, publication_age),
               percentile_rank |-> 0,
               field_normalized_score |-> 0]]
       /\ UNCHANGED <<batch, auth, papers, citations, user_papers, call, req, proc, limiter>>

\* A db.query raises (lines 217, 222, 227, 236): the except clause at line 280
\* logs the error (kept in error) and returns {}.
InfluenceQueryRaises ==
    /\ inf.pc \in {"start", "counting", "citers"}
    /\ inf' = [inf EXCEPT !.pc = "returned", !.error = "StoreFailure",
                          !.result = EmptyDict]
    /\ UNCHANGED <<batch, auth, papers, citations, user_papers, call, req, proc, limiter>>

\* ------------------------------------------------------ citation endpoints
Users == {"alice", "bob"}

\* UserPaper rows: unique_user_paper makes (user_id, paper_id) a key; paper_id
\* is a foreign key into papers.
UserPaperRow(user_id, paper_id) == [user_id |-> user_id, paper_id |-> paper_id]

\* Mutant: the row of any user for the paper is found.
GetUserPaperOfAnyUser(user_id, paper_id) ==
    IF \E r \in user_papers : r.paper_id = UUID(paper_id)
    THEN CHOOSE r \in user_papers : r.paper_id = UUID(paper_id)
    ELSE None

\* get_user_paper: db.query(UserPaper).filter(user_id, paper_id).first()
GetUserPaper(user_id, paper_id) ==
    IF UserPaperRow(UUID(user_id), UUID(paper_id)) \in user_papers
    THEN UserPaperRow(UUID(user_id), UUID(paper_id))
    ELSE None

\* The defaults of the query parameters depth and max_papers.
DefaultDepth == 2
DefaultMaxPapers == 50

HTTP_403_FORBIDDEN == 403
HTTP_500_INTERNAL_SERVER_ERROR == 500
HTTP_200_OK == 200
HTTP_404_NOT_FOUND == 404

IdleRequest ==
    [pc |-> "idle", endpoint |-> "none", user_id |-> str("alice"), paper_id |-> 0,
     depth |-> 0, max_papers |-> 0, limit |-> 0, store_failed |-> FALSE,
     status |-> 0, detail |-> "", body |-> None]

\* GET /{paper_id}/network arrives for an authenticated, active user.
GetCitationNetwork(user, paper_id, depth, max_papers) ==
    /\ req.pc = "idle"
    /\ req' = [IdleRequest EXCEPT !.pc = "access", !.endpoint = "network",
                                  !.user_id = str(user), !.paper_id = paper_id,
                                  !.depth = depth, !.max_papers = max_papers]
    /\ UNCHANGED <<batch, auth, papers, citations, user_papers, call, inf, proc, limiter>>

\* GET /{paper_id}/influence arrives for an authenticated, active user.
GetPaperInfluence(user, paper_id) ==
    /\ req.pc = "idle"
    /\ req' = [IdleRequest EXCEPT !.pc = "access", !.endpoint = "influence",
                                  !.user_id = str(user), !.paper_id = paper_id]
    /\ UNCHANGED <<batch, auth, papers, citations, user_papers, call, inf, proc, limiter>>

\* The default of the query parameter limit.
DefaultLimit == 20

\* GET /{paper_id}/citing arrives for an authenticated, active user.
GetCitingPapers(user, paper_id, limit) ==
    /\ req.pc = "idle"
    /\ req' = [IdleRequest EXCEPT !.pc = "access", !.endpoint = "citing",
                                  !.user_id = str(user), !.paper_id = paper_id,
                                  !.limit = limit]
    /\ UNCHANGED <<batch, auth, papers, citations, user_papers, call, inf, proc, limiter>>

\* GET /{paper_id}/references arrives for an authenticated, active user.
GetReferencedPapers(user, paper_id, limit) ==
    /\ req.pc = "idle"
    /\ req' = [IdleRequest EXCEPT !.pc = "access", !.endpoint = "references",
                                  !.user_id = str(user), !.paper_id = paper_id,
                                  !.limit = limit]
    /\ UNCHANGED <<batch, auth, papers, citations, user_papers, call, inf, proc, limiter>>

CitationEndpoints == {"network", "citing", "references", "influence"}

Forbidden(r) ==
    [r EXCEPT !.pc = "responded", !.status = HTTP_403_FORBIDDEN,
              !.detail = "Access denied to this paper"]

\* user_paper = await get_user_paper(...); 403 without it, else the service is
\* called with str(paper_id).
CheckAccess ==
    LET user_paper == GetUserPaper(req.user_id, str(req.paper_id))
    IN /\ req.pc = "access"
       /\ req.endpoint \in CitationEndpoints
       /\ IF user_paper = None
          THEN /\ req' = Forbidden(req)
               /\ UNCHANGED <<call, inf>>
          ELSE /\ req' = [req EXCEPT !.pc = "service"]
               /\ IF req.endpoint = "network"
                  THEN /\ call' = [call EXCEPT !["first"] =
                              StartedCall(str(req.paper_id), req.depth, req.max_papers)]
                       /\ UNCHANGED inf
                  ELSE IF req.endpoint = "influence"
                  THEN /\ inf' = StartedInfluence(str(req.paper_id))
                       /\ UNCHANGED call
                  ELSE UNCHANGED <<call, inf>>
       /\ UNCHANGED <<batch, auth, papers, citations, user_papers, proc, limiter>>

\* The query of get_user_paper raises: its except clause logs and returns
\* None, and the endpoint answers 403.
GetUserPaperRaises ==
    /\ req.pc = "access"
    /\ req.endpoint \in CitationEndpoints
    /\ req' = [Forbidden(req) EXCEPT !.store_failed = TRUE]
    /\ UNCHANGED <<batch, auth, papers, citations, user_papers, call, inf, proc, limiter>>

\* get_citation_network, after the await: the network is returned, or the
\* exception of the service becomes a 500 with a fixed detail.
NetworkRespond ==
    /\ req.pc = "service" /\ req.endpoint = "network"
    /\ call["first"].pc \in {"returned", "raised"}
    /\ req' = IF call["first"].pc = "returned"
              THEN [req EXCEPT !.pc = "responded", !.status = HTTP_200_OK,
                               !.body = [nodes |-> call["first"].nodes,
                                         edges |-> call["first"].edges]]
              ELSE [req EXCEPT !.pc = "responded",
                               !.status = HTTP_500_INTERNAL_SERVER_ERROR,
                               !.detail = "Failed to retrieve citation network",
                               !.store_failed = (call["first"].error = "StoreFailure")]
    /\ UNCHANGED <<batch, auth, papers, citations, user_papers, call, inf, proc, limiter>>

\* get_paper_influence, after the await: whatever the service returned is the
\* body of a 200.
InfluenceRespond ==
    /\ req.pc = "service" /\ req.endpoint = "influence"
    /\ inf.pc = "returned"
    /\ req' = [req EXCEPT !.pc = "responded", !.status = HTTP_200_OK,
                          !.body = inf.result,
                          !.store_failed = (inf.error = "StoreFailure")]
    /\ UNCHANGED <<batch, auth, papers, citations, user_papers, call, inf, proc, limiter>>

\* One entry of the list get_citing_papers or get_referenced_papers returns:
\* the paper at the other end of the citation and the citation's details.
ListedPaper(other, citation) ==
    [paper_id |-> str(other),
     citation_count |-> papers[other].citation_count,
     citation_context |-> context(citation),
     citation_strength |-> strength(citation)]

\* .limit(limit).all(): the first rows of the result, at most limit of them
Limit(rows, limit) == SubSeq(rows, 1, IF Len(rows) < limit THEN Len(rows) ELSE limit)

\* get_citing_papers: the rows whose cited paper is paper_id, joined with the
\* citing paper
CitingPapersOf(paper_id, limit) ==
    {[i \in DOMAIN Limit(rows, limit) |-> ListedPaper(rows[i].citing_paper_id, rows[i])] :
        rows \in AllOrders(CitingCitations(UUID(paper_id)))}

\* get_referenced_papers: the rows whose citing paper is paper_id, joined with
\* the cited paper
ReferencedPapersOf(paper_id, limit) ==
    {[i \in DOMAIN Limit(rows, limit) |-> ListedPaper(rows[i].cited_paper_id, rows[i])] :
        rows \in AllOrders(CitedCitations(UUID(paper_id)))}

\* get_citing_papers / get_referenced_papers, after the await: the list the
\* service returned is the body of a 200.
ListRespond ==
    /\ req.pc = "service" /\ req.endpoint \in {"citing", "references"}
    /\ \E listed \in IF req.endpoint = "citing"
                      THEN CitingPapersOf(str(req.paper_id), req.limit)
                      ELSE ReferencedPapersOf(str(req.paper_id), req.limit) :
           req' = [req EXCEPT !.pc = "responded", !.status = HTTP_200_OK,
                              !.body = [papers |-> listed]]
    /\ UNCHANGED <<batch, auth, papers, citations, user_papers, call, inf, proc, limiter>>

\* A query of the listing raises: the service logs it and returns [], which
\* is the body of a 200.
ListQueryRaises ==
    /\ req.pc = "service" /\ req.endpoint \in {"citing", "references"}
    /\ req' = [req EXCEPT !.pc = "responded", !.status = HTTP_200_OK,
                          !.body = [papers |-> <<>>], !.store_failed = TRUE]
    /\ UNCHANGED <<batch, auth, papers, citations, user_papers, call, inf, proc, limiter>>

\* The response has been sent: the locals of the request are gone.
RequestEnds ==
    /\ req.pc = "responded"
    /\ req' = IdleRequest
    /\ call' = [call EXCEPT !["first"] = IdleCall]
    /\ inf' = IdleInfluence
    /\ UNCHANGED <<batch, auth, papers, citations, user_papers, proc, limiter>>

\* process_paper_from_url for a paper that exists: the user-paper row is
\* created when get_user_paper finds none.
AddPaperToLibrary(user, paper_id) ==
    /\ req.pc = "idle"
    /\ paper_id \in DOMAIN papers
    /\ GetUserPaper(str(user), str(paper_id)) = None
    /\ user_papers' = user_papers \cup {UserPaperRow(user, paper_id)}
    /\ UNCHANGED <<batch, auth, papers, citations, call, inf, req, proc, limiter>>

\* --------------------------------------------------- batch_process_papers
\* settings.ai_batch_size
ai_batch_size == 5

IdleBatch ==
    [pc |-> "idle", papers_data |-> <<>>, batch_size |-> None, size |-> 0,
     i |-> 0, tasks |-> <<>>, batch_results |-> <<>>, results |-> <<>>]

\* batch_size or settings.ai_batch_size
BatchSize(batch_size) ==
    IF batch_size = None \/ batch_size.value = 0 THEN ai_batch_size ELSE batch_size.value

\* papers_data[i:i + batch_size], i counting from 0
Slice(papers_data, i, size) == SubSeq(papers_data, i + 1, Min(i + size, Len(papers_data)))

Pending == [pending |-> TRUE]

\* What awaiting _process_single_paper(paper_data) gives: the record of a
\* completed paper, the record its except clause builds, or an exception that
\* leaves the coroutine.
Completed(paper_data) ==
    [paper_id |-> paper_data.id, processing_status |-> "completed"]
Failed(paper_data) ==
    [paper_id |-> paper_data.id, error |-> "AI request failed",
     processing_status |-> "failed"]
Raised == [exception |-> "Processing failed"]

ProcessSinglePaper(paper_data) == {Completed(paper_data), Failed(paper_data), Raised}

\* isinstance(result, Exception)
IsException(result) == "exception" \in DOMAIN result

\* Mutant: the index is the position in the batch.
PaperIndexInBatch(i, j) == j

\* "paper_index": i + j
PaperIndex(i, j) == i + j

\* for j, result in enumerate(batch_results): results.append(...)
RECURSIVE ForBatchResults(_, _, _, _)
ForBatchResults(batch_results, i, j, results) ==
    IF j >= Len(batch_results) THEN results
    ELSE LET result == batch_results[j + 1]
         IN ForBatchResults(batch_results, i, j + 1,
                Append(results,
                       IF IsException(result)
                       THEN [error |-> result.exception, paper_index |-> PaperIndex(i, j)]
                       ELSE result))

\* Lines 331-334: the call starts.
BatchProcessPapers(papers_data, batch_size) ==
    /\ batch.pc = "idle"
    /\ batch' = [IdleBatch EXCEPT !.pc = "for", !.papers_data = papers_data,
                                  !.batch_size = batch_size,
                                  !.size = BatchSize(batch_size)]
    /\ UNCHANGED <<papers, citations, user_papers, call, inf, req, auth, proc, limiter>>

\* Lines 336-343: the next batch is cut and one task per paper is created.
ForBatch ==
    /\ batch.pc = "for"
    /\ batch.i < Len(batch.papers_data)
    /\ batch' = [batch EXCEPT !.pc = "gather",
                  !.tasks = [j \in 1..Len(Slice(batch.papers_data, batch.i, batch.size))
                                |-> Pending]]
    /\ UNCHANGED <<papers, citations, user_papers, call, inf, req, auth, proc, limiter>>

\* One task of the batch ends, in any order; gather keeps its outcome at the
\* position of its paper.
TaskCompletes(j) ==
    /\ batch.pc = "gather"
    /\ j \in DOMAIN batch.tasks
    /\ batch.tasks[j] = Pending
    /\ \E outcome \in ProcessSinglePaper(batch.papers_data[batch.i + j]) :
           batch' = [batch EXCEPT !.tasks[j] = outcome]
    /\ UNCHANGED <<papers, citations, user_papers, call, inf, req, auth, proc, limiter>>

\* Lines 346-353: asyncio.gather(..., return_exceptions=True) returns and the
\* outcomes are appended; range(0, len(papers_data), batch_size) moves on.
GatherReturns ==
    /\ batch.pc = "gather"
    /\ \A j \in DOMAIN batch.tasks : batch.tasks[j] # Pending
    /\ batch' = [batch EXCEPT !.pc = "for",
                  !.batch_results = @ \o batch.tasks,
                  !.results = ForBatchResults(batch.tasks, batch.i, 0, @),
                  !.i = @ + batch.size,
                  !.tasks = <<>>]
    /\ UNCHANGED <<papers, citations, user_papers, call, inf, req, auth, proc, limiter>>

\* Lines 359-360: the range is exhausted and results is returned.
BatchReturn ==
    /\ batch.pc = "for"
    /\ batch.i >= Len(batch.papers_data)
    /\ batch' = [batch EXCEPT !.pc = "returned"]
    /\ UNCHANGED <<papers, citations, user_papers, call, inf, req, auth, proc, limiter>>

\* ------------------------------------------------------------------- auth
HTTP_401_UNAUTHORIZED == 401
HTTP_400_BAD_REQUEST == 400

\* to_encode = {"exp": expire, "sub": str(subject), "type": ...}; pair numbers
\* the login or refresh that issued the token and stands for its exp.
Payload(subject, type, pair) == [sub |-> subject, type |-> type, pair |-> pair]

\* jwt.encode(to_encode, settings.secret_key, algorithm=settings.algorithm)
Encode(to_encode, key) == [signed |-> to_encode, key |-> key]

create_access_token(subject, pair) == Encode(Payload(subject, "access", pair), "secret_key")
create_refresh_token(subject, pair) == Encode(Payload(subject, "refresh", pair), "secret_key")

\* A string that is no token of this application, such as "invalid_refresh_token".
InvalidToken == Encode(None, "none")
NoToken == Encode(None, "absent")

\* The request of the auth layer: the endpoint, the token presented, the
\* locals payload and user of the dependencies, and the response.
IdleAuthRequest ==
    [pc |-> "idle", endpoint |-> "none", token |-> NoToken, payload |-> None,
     user |-> None, status |-> 0, detail |-> "", tokens |-> None]

\* The User rows (is_active), the tokens issued, those whose exp has passed,
\* and the access tokens a logout was performed with.
IdleAuth ==
    [users |-> [u \in Users |-> [is_active |-> TRUE]],
     pairs |-> 0, issued |-> {}, expired |-> {}, logged_out |-> {},
     request |-> IdleAuthRequest]

\* jwt.decode(token, settings.secret_key, algorithms=[...]) returns the
\* payload of a token signed with the key whose exp has not passed, and raises
\* otherwise.
Decodes(token) == token.key = "secret_key" /\ token \notin auth.expired

\* verify_token(token, token_type). When jwt.decode raises, the clause
\* "except jwt.JWTError" is evaluated: with a jwt module that defines JWTError
\* the result is None; PyJWT defines none, and the AttributeError leaves the
\* function.
verify_token(token, token_type, jwt_defines_JWTError) ==
    IF ~Decodes(token)
    THEN IF jwt_defines_JWTError THEN [kind |-> "None", payload |-> None]
         ELSE [kind |-> "AttributeError", payload |-> None]
    ELSE IF token.signed.type # token_type
    THEN [kind |-> "None", payload |-> token.signed]
    ELSE [kind |-> "user_id", payload |-> token.signed]

\* get_user_by_id(db, user_id)
get_user_by_id(user_id) ==
    IF user_id \in DOMAIN auth.users THEN auth.users[user_id] ELSE None

\* Token(access_token=..., refresh_token=..., token_type="bearer", ...)
Token(subject, pair) ==
    [access_token |-> create_access_token(subject, pair),
     refresh_token |-> create_refresh_token(subject, pair)]

Respond(r, status, detail) ==
    [r EXCEPT !.pc = "responded", !.status = status, !.detail = detail]

\* The new pair is issued and returned.
Issue(r, subject) ==
    LET pair == auth.pairs + 1
    IN [auth EXCEPT !.pairs = pair,
                    !.issued = @ \cup {create_access_token(subject, pair),
                                       create_refresh_token(subject, pair)},
                    !.request = [Respond(r, HTTP_200_OK, "") EXCEPT
                                     !.tokens = Token(subject, pair)]]

\* POST /login-json: authenticate_user, the is_active check, the new tokens.
LoginJson(u, password_ok) ==
    LET r == [IdleAuthRequest EXCEPT !.endpoint = "login-json"]
        user == get_user_by_id(u)
    IN /\ auth.pairs < MaxTokenPairs
       /\ auth' = IF ~password_ok
                  THEN [auth EXCEPT !.request =
                           Respond(r, HTTP_401_UNAUTHORIZED, "Incorrect email or password")]
                  ELSE IF ~user.is_active
                  THEN [auth EXCEPT !.request =
                           Respond([r EXCEPT !.user = user], HTTP_400_BAD_REQUEST, "Inactive user")]
                  ELSE Issue([r EXCEPT !.user = user], u)
       /\ UNCHANGED <<papers, citations, user_papers, call, inf, req, batch, proc, limiter>>

\* POST /refresh with token_data.refresh_token = token.
RefreshToken(token, jwt_defines_JWTError) ==
    LET verified == verify_token(token, "refresh", jwt_defines_JWTError)
        r == [IdleAuthRequest EXCEPT !.endpoint = "refresh", !.token = token,
                                     !.payload = verified.payload]
        user == get_user_by_id(verified.payload.sub)
    IN /\ auth.pairs < MaxTokenPairs
       /\ auth' = IF verified.kind = "AttributeError"
                  THEN [auth EXCEPT !.request =
                           Respond(r, HTTP_500_INTERNAL_SERVER_ERROR, "Internal Server Error")]
                  ELSE IF verified.kind = "None"
                  THEN [auth EXCEPT !.request =
                           Respond(r, HTTP_401_UNAUTHORIZED, "Invalid refresh token")]
                  ELSE IF user = None \/ ~user.is_active
                  THEN [auth EXCEPT !.request =
                           Respond([r EXCEPT !.user = user], HTTP_401_UNAUTHORIZED,
                                   "User not found or inactive")]
                  ELSE Issue([r EXCEPT !.user = user], verified.payload.sub)
       /\ UNCHANGED <<papers, citations, user_papers, call, inf, req, batch, proc, limiter>>

BearerEndpoints == {"me", "logout", "delete-me"}

\* A request with "Authorization: Bearer token" to an endpoint that depends on
\* get_current_active_user: get_current_user_id (401), get_current_user
\* (404), get_current_active_user (400), then the handler: GET /auth/me
\* returns the user, POST /auth/logout logs and returns a message,
\* DELETE /users/me deactivates the user.
BearerRequest(endpoint, token, jwt_defines_JWTError) ==
    LET verified == verify_token(token, "access", jwt_defines_JWTError)
        r == [IdleAuthRequest EXCEPT !.endpoint = endpoint, !.token = token,
                                     !.payload = verified.payload]
        user == get_user_by_id(verified.payload.sub)
        found == [r EXCEPT !.user = user]
    IN /\ endpoint \in BearerEndpoints
       /\ auth' = IF verified.kind = "AttributeError"
                  THEN [auth EXCEPT !.request =
                           Respond(r, HTTP_500_INTERNAL_SERVER_ERROR, "Internal Server Error")]
                  ELSE IF verified.kind = "None"
                  THEN [auth EXCEPT !.request =
                           Respond(r, HTTP_401_UNAUTHORIZED, "Could not validate credentials")]
                  ELSE IF user = None
                  THEN [auth EXCEPT !.request =
                           Respond(found, HTTP_404_NOT_FOUND, "User not found")]
                  ELSE IF ~user.is_active
                  THEN [auth EXCEPT !.request =
                           Respond(found, HTTP_400_BAD_REQUEST, "Inactive user")]
                  ELSE IF endpoint = "logout"
                  THEN [auth EXCEPT !.logged_out = @ \cup {token},
                                    !.request = Respond(found, HTTP_200_OK,
                                                        "Successfully logged out")]
                  ELSE IF endpoint = "delete-me"
                  THEN [auth EXCEPT !.users[verified.payload.sub].is_active = FALSE,
                                    !.request = Respond(found, HTTP_200_OK,
                                                        "Account deleted successfully")]
                  ELSE [auth EXCEPT !.request = Respond(found, HTTP_200_OK, "")]
       /\ UNCHANGED <<papers, citations, user_papers, call, inf, req, batch, proc, limiter>>

\* Time passes the exp of an issued token; the access token of a pair
\* (minutes) expires before its refresh token (days).
Expire(token) ==
    /\ token \in auth.issued \ auth.expired
    /\ token.signed.type = "refresh" =>
           create_access_token(token.signed.sub, token.signed.pair) \in auth.expired
    /\ auth' = [auth EXCEPT !.expired = @ \cup {token}]
    /\ UNCHANGED <<papers, citations, user_papers, call, inf, req, batch, proc, limiter>>

\* ------------------------------------------------------- library endpoint
\* DELETE /{paper_id} arrives for an authenticated, active user.
RemovePaperFromLibrary(user, paper_id) ==
    /\ req.pc \in {"idle", "responded"}
    /\ req' = [IdleRequest EXCEPT !.pc = "lookup", !.endpoint = "remove",
                                  !.user_id = str(user), !.paper_id = paper_id]
    /\ UNCHANGED <<batch, auth, papers, citations, user_papers, call, inf, proc, limiter>>

NotInLibrary(r) ==
    [r EXCEPT !.pc = "responded", !.status = HTTP_404_NOT_FOUND,
              !.detail = "Paper not found in user's library"]

\* Mutant: the rows of every user for the paper are deleted.
DbDeleteForAllUsers(rows, user_paper) ==
    {r \in rows : r.paper_id # user_paper.paper_id}

\* db.delete(user_paper); db.commit()
DbDelete(rows, user_paper) == rows \ {user_paper}

\* remove_paper_from_library: 404 without the caller's row, else the row is
\* deleted and the message returned.
RemoveFromLibrary ==
    LET user_paper == GetUserPaper(req.user_id, str(req.paper_id))
    IN /\ req.pc = "lookup" /\ req.endpoint = "remove"
       /\ IF user_paper = None
          THEN /\ req' = NotInLibrary(req)
               /\ UNCHANGED user_papers
          ELSE /\ user_papers' = DbDelete(user_papers, user_paper)
               /\ req' = [req EXCEPT !.pc = "responded", !.status = HTTP_200_OK,
                                     !.body = [message |-> "Paper removed from library successfully"]]
       /\ UNCHANGED <<batch, auth, papers, citations, call, inf, proc, limiter>>

\* The query of get_user_paper raises: it returns None and the answer is 404.
RemoveLookupRaises ==
    /\ req.pc = "lookup" /\ req.endpoint = "remove"
    /\ req' = [NotInLibrary(req) EXCEPT !.store_failed = TRUE]
    /\ UNCHANGED <<batch, auth, papers, citations, user_papers, call, inf, proc, limiter>>

\* db.delete or db.commit raises: nothing is committed and the answer is 500.
RemoveCommitRaises ==
    /\ req.pc = "lookup" /\ req.endpoint = "remove"
    /\ GetUserPaper(req.user_id, str(req.paper_id)) # None
    /\ req' = [req EXCEPT !.pc = "responded", !.store_failed = TRUE,
                          !.status = HTTP_500_INTERNAL_SERVER_ERROR,
                          !.detail = "Failed to remove paper"]
    /\ UNCHANGED <<batch, auth, papers, citations, user_papers, call, inf, proc, limiter>>

\* -------------------------------------------------------- paper processing
\* ProcessingStatus
PENDING == "pending"
PROCESSING == "processing"
COMPLETED == "completed"
FAILED == "failed"

\* Celery worker processes, and process_paper_from_url calls served by
\* separate server processes on one database.
Workers == {"w1", "w2"}
Submitters == {"s1", "s2"}

\* Task.max_retries, and retry_kwargs={'max_retries': 3, ...}
max_retries == 3

\* countdown = 2 ** self.request.retries * 60
Countdown(retries) == (2 ^ retries) * 60

\* The message process_paper_task.delay(paper_id) puts on the queue; a retry
\* carries the number of retries made and the countdown it was scheduled with.
Task(paper_id, retries, countdown) ==
    [paper_id |-> paper_id, retries |-> retries, countdown |-> countdown]

\* The columns of a Paper row the pipeline reads and writes. A text is "" or
\* a word, an optional column is None or a record.
NewPaper(url, paper_data) ==
    [url |-> url, doi |-> paper_data.doi, arxiv_id |-> paper_data.arxiv_id,
     title |-> paper_data.title, abstract |-> paper_data.abstract, full_text |-> "",
     pdf_url |-> paper_data.pdf_url,
     processing_status |-> PENDING, processed_at |-> None, processing_error |-> None,
     summary |-> None]

\* The locals of a process_paper_task execution and of the
\* process_paper_content call it makes.
IdleWorker ==
    [pc |-> "idle", paper_id |-> 0, retries |-> 0, paper |-> None,
     success |-> None, exc |-> None]

\* The locals of a process_paper_from_url call.
IdleSubmit ==
    [pc |-> "idle", url |-> "", user_id |-> str("alice"), paper_data |-> None,
     existing_paper |-> None, paper |-> None, is_new |-> None, error |-> "none"]

IdleProc ==
    [papers |-> <<>>, queue |-> <<>>,
     worker |-> [w \in Workers |-> IdleWorker],
     submit |-> [s \in Submitters |-> IdleSubmit]]

\* db.query(Paper).filter(Paper.id == UUID(paper_id)).first()
get_paper_by_id(paper_id) ==
    IF paper_id \in DOMAIN proc.papers THEN proc.papers[paper_id] ELSE None

\* Mutant: only the status column is written.
update_status_only(rows, paper_id, status, error_message) ==
    IF paper_id \notin DOMAIN rows THEN rows
    ELSE [rows EXCEPT ![paper_id] = [@ EXCEPT !.processing_status = status]]

\* update_paper_processing_status: no row, no write; COMPLETED stamps
\* processed_at, FAILED stores the error message.
update_paper_processing_status(rows, paper_id, status, error_message) ==
    IF paper_id \notin DOMAIN rows THEN rows
    ELSE [rows EXCEPT ![paper_id] =
             [@ EXCEPT !.processing_status = status,
                       !.processed_at = IF status = COMPLETED THEN [set |-> TRUE] ELSE @,
                       !.processing_error = IF status = FAILED THEN error_message ELSE @]]

\* _prepare_content_for_ai: the parts that are joined; the content is empty
\* when there is no part.
PrepareContentForAi(paper) ==
    (IF paper.title # "" THEN <<"Title">> ELSE <<>>)
    \o (IF paper.abstract # "" THEN <<"Abstract">> ELSE <<>>)
    \o (IF paper.full_text # "" THEN <<"Full Text">>
        ELSE IF paper.abstract # "" THEN <<"Content">> ELSE <<>>)

\* A worker takes a message of the queue: process_paper_task starts.
TaskReceived(w, k) ==
    /\ proc.worker[w].pc = "idle"
    /\ k \in DOMAIN proc.queue
    /\ proc' = [proc EXCEPT !.queue = RemoveAt(@, k),
                            !.worker[w] = [IdleWorker EXCEPT
                                !.pc = "session",
                                !.paper_id = proc.queue[k].paper_id,
                                !.retries = proc.queue[k].retries]]
    /\ UNCHANGED <<papers, citations, user_papers, call, inf, req, batch, auth, limiter>>

\* db = SessionLocal(); process_paper_content is called.
OpenSession(w) ==
    /\ proc.worker[w].pc = "session"
    /\ proc' = [proc EXCEPT !.worker[w].pc = "get"]
    /\ UNCHANGED <<papers, citations, user_papers, call, inf, req, batch, auth, limiter>>

\* SessionLocal() raises: the except clause of the task is entered.
SessionRaises(w) ==
    /\ proc.worker[w].pc = "session"
    /\ proc' = [proc EXCEPT !.worker[w].pc = "except",
                            !.worker[w].exc = [text |-> "SessionLocal failed"]]
    /\ UNCHANGED <<papers, citations, user_papers, call, inf, req, batch, auth, limiter>>

\* paper = await get_paper_by_id(db, paper_id); ValueError without it
ContentGetPaper(w) ==
    LET paper == get_paper_by_id(proc.worker[w].paper_id)
    IN /\ proc.worker[w].pc = "get"
       /\ proc' = IF paper = None
                  THEN [proc EXCEPT !.worker[w].pc = "handler",
                                    !.worker[w].exc = [text |-> "Paper not found"]]
                  ELSE [proc EXCEPT !.worker[w].pc = "mark", !.worker[w].paper = paper]
       /\ UNCHANGED <<papers, citations, user_papers, call, inf, req, batch, auth, limiter>>

\* await update_paper_processing_status(db, paper_id, ProcessingStatus.PROCESSING)
ContentMarkProcessing(w) ==
    /\ proc.worker[w].pc = "mark"
    /\ proc' = [proc EXCEPT
           !.papers = update_paper_processing_status(@, proc.worker[w].paper_id,
                                                     PROCESSING, None),
           !.worker[w].pc = "extract"]
    /\ UNCHANGED <<papers, citations, user_papers, call, inf, req, batch, auth, limiter>>

\* if not paper.full_text and paper.pdf_url: the text is extracted and
\* stored, or nothing is extracted, or the extraction raises.
ContentExtract(w) ==
    LET wk == proc.worker[w]
    IN /\ wk.pc = "extract"
       /\ IF wk.paper.full_text = "" /\ wk.paper.pdf_url # None
          THEN \/ proc' = [proc EXCEPT
                       !.papers[wk.paper_id].full_text = "F",
                       !.worker[w].paper.full_text = "F",
                       !.worker[w].pc = "analyse"]
               \/ proc' = [proc EXCEPT !.worker[w].pc = "analyse"]
               \/ proc' = [proc EXCEPT !.worker[w].pc = "handler",
                                       !.worker[w].exc = [text |-> "PDF extraction failed"]]
          ELSE proc' = [proc EXCEPT !.worker[w].pc = "analyse"]
       /\ UNCHANGED <<papers, citations, user_papers, call, inf, req, batch, auth, limiter>>

\* content = self._prepare_content_for_ai(paper); ValueError when it is
\* empty; _generate_ai_analysis returns the results or raises.
ContentAnalyse(w) ==
    LET wk == proc.worker[w]
    IN /\ wk.pc = "analyse"
       /\ IF PrepareContentForAi(wk.paper) = <<>>
          THEN proc' = [proc EXCEPT
                   !.worker[w].pc = "handler",
                   !.worker[w].exc = [text |-> "No content available for AI processing"]]
          ELSE \/ proc' = [proc EXCEPT !.worker[w].pc = "save"]
               \/ proc' = [proc EXCEPT !.worker[w].pc = "handler",
                                       !.worker[w].exc = [text |-> "AI request failed"]]
       /\ UNCHANGED <<papers, citations, user_papers, call, inf, req, batch, auth, limiter>>

\* await update_paper(db, paper_id, ai_results)
ContentSave(w) ==
    /\ proc.worker[w].pc = "save"
    /\ proc' = [proc EXCEPT !.papers[proc.worker[w].paper_id].summary = [by |-> w],
                            !.worker[w].pc = "complete"]
    /\ UNCHANGED <<papers, citations, user_papers, call, inf, req, batch, auth, limiter>>

\* The status becomes COMPLETED and process_paper_content returns True.
ContentComplete(w) ==
    /\ proc.worker[w].pc = "complete"
    /\ proc' = [proc EXCEPT
           !.papers = update_paper_processing_status(@, proc.worker[w].paper_id,
                                                     COMPLETED, None),
           !.worker[w].pc = "returned",
           !.worker[w].success = [value |-> TRUE]]
    /\ UNCHANGED <<papers, citations, user_papers, call, inf, req, batch, auth, limiter>>

\* except Exception as e: the status becomes FAILED with str(e) and
\* process_paper_content returns False.
ContentHandler(w) ==
    /\ proc.worker[w].pc = "handler"
    /\ proc' = [proc EXCEPT
           !.papers = update_paper_processing_status(@, proc.worker[w].paper_id,
                                                     FAILED, proc.worker[w].exc),
           !.worker[w].pc = "returned",
           !.worker[w].success = [value |-> FALSE]]
    /\ UNCHANGED <<papers, citations, user_papers, call, inf, req, batch, auth, limiter>>

\* The task returns {"status": "completed"} or {"status": "failed"}.
TaskReturns(w) ==
    /\ proc.worker[w].pc = "returned"
    /\ proc' = [proc EXCEPT !.worker[w] = IdleWorker]
    /\ UNCHANGED <<papers, citations, user_papers, call, inf, req, batch, auth, limiter>>

\* except Exception as exc, in the task: a retry is scheduled while
\* retries < max_retries, else the paper is marked FAILED and exc is raised.
TaskExcept(w) ==
    LET wk == proc.worker[w]
    IN /\ wk.pc = "except"
       /\ proc' = IF wk.retries < max_retries
                  THEN [proc EXCEPT
                           !.queue = Append(@, Task(wk.paper_id, wk.retries + 1,
                                                    Countdown(wk.retries))),
                           !.worker[w] = IdleWorker]
                  ELSE [proc EXCEPT
                           !.papers = update_paper_processing_status(@, wk.paper_id,
                                                                     FAILED, wk.exc),
                           !.worker[w] = IdleWorker]
       /\ UNCHANGED <<papers, citations, user_papers, call, inf, req, batch, auth, limiter>>

\* get_papers_by_processing_status(db, ProcessingStatus.PENDING, limit=10)
PendingLimit == 10
PendingPapers ==
    LET ids == SelectSeq([i \in DOMAIN proc.papers |-> i],
                         LAMBDA i : proc.papers[i].processing_status = PENDING)
    IN SubSeq(ids, 1, IF Len(ids) < PendingLimit THEN Len(ids) ELSE PendingLimit)

\* process_pending_papers_task, run by the beat schedule: a task is queued
\* for every pending paper.
ProcessPendingPapers ==
    /\ PendingPapers # <<>>
    /\ Len(proc.queue) + Len(PendingPapers) <= MaxQueue
    /\ proc' = [proc EXCEPT
           !.queue = @ \o [k \in DOMAIN PendingPapers |-> Task(PendingPapers[k], 0, 0)]]
    /\ UNCHANGED <<papers, citations, user_papers, call, inf, req, batch, auth, limiter>>

\* The URLs submitted: a PDF link, which carries no identifier, and an arXiv
\* page.
PdfUrl == "https://example.org/paper.pdf"
ArxivUrl == "https://arxiv.org/abs/2401.00001"
Urls == {PdfUrl, ArxivUrl}

\* _extract_paper_metadata
PaperData(url) ==
    IF url = ArxivUrl
    THEN [doi |-> None, arxiv_id |-> [value |-> "2401.00001"], title |-> "T",
          abstract |-> "A", pdf_url |-> [value |-> "https://arxiv.org/pdf/2401.00001.pdf"]]
    ELSE [doi |-> None, arxiv_id |-> None, title |-> "PDF Document",
          abstract |-> "", pdf_url |-> [value |-> url]]

\* _find_existing_paper: by DOI, then by arXiv id, then by URL; each query
\* returns the first row that matches.
FindExistingPaper(paper_data, url) ==
    LET by_doi == {i \in DOMAIN proc.papers :
                      paper_data.doi # None /\ proc.papers[i].doi = paper_data.doi}
        by_arxiv_id == {i \in DOMAIN proc.papers :
                           /\ paper_data.arxiv_id # None
                           /\ proc.papers[i].arxiv_id = paper_data.arxiv_id}
        by_url == {i \in DOMAIN proc.papers : proc.papers[i].url = url}
        found == IF by_doi # {} THEN by_doi
                 ELSE IF by_arxiv_id # {} THEN by_arxiv_id
                 ELSE by_url
    IN IF found = {} THEN {None} ELSE {[id |-> i] : i \in found}

\* doi and arxiv_id are unique columns: an insert that repeats one fails.
UniqueViolation(rows, paper_data) ==
    \E i \in DOMAIN rows :
        \/ paper_data.doi # None /\ rows[i].doi = paper_data.doi
        \/ paper_data.arxiv_id # None /\ rows[i].arxiv_id = paper_data.arxiv_id

\* process_paper_from_url(url, user_id, db) is called.
ProcessPaperFromUrl(s, url, user) ==
    /\ proc.submit[s].pc = "idle"
    /\ Len(proc.papers) < MaxSubmitted
    /\ proc' = [proc EXCEPT !.submit[s] =
           [IdleSubmit EXCEPT !.pc = "metadata", !.url = url, !.user_id = str(user)]]
    /\ UNCHANGED <<papers, citations, user_papers, call, inf, req, batch, auth, limiter>>

\* paper_data, source = await self._extract_paper_metadata(url)
ExtractMetadata(s) ==
    /\ proc.submit[s].pc = "metadata"
    /\ proc' = [proc EXCEPT !.submit[s].pc = "find",
                            !.submit[s].paper_data = PaperData(proc.submit[s].url)]
    /\ UNCHANGED <<papers, citations, user_papers, call, inf, req, batch, auth, limiter>>

\* existing_paper = await self._find_existing_paper(db, paper_data, url)
FindExisting(s) ==
    LET sb == proc.submit[s]
    IN /\ sb.pc = "find"
       /\ \E existing_paper \in FindExistingPaper(sb.paper_data, sb.url) :
              proc' = [proc EXCEPT
                  !.submit[s].existing_paper = existing_paper,
                  !.submit[s].pc = IF existing_paper = None THEN "create" ELSE "library"]
       /\ UNCHANGED <<papers, citations, user_papers, call, inf, req, batch, auth, limiter>>

\* The paper exists: user_paper = await get_user_paper(...); with a row the
\* call returns (existing_paper, False).
LookupLibrary(s) ==
    LET sb == proc.submit[s]
        user_paper == GetUserPaper(sb.user_id, str(sb.existing_paper.id))
    IN /\ sb.pc = "library"
       /\ proc' = IF user_paper = None
                  THEN [proc EXCEPT !.submit[s].pc = "add"]
                  ELSE [proc EXCEPT !.submit[s].pc = "returned",
                                    !.submit[s].paper = sb.existing_paper,
                                    !.submit[s].is_new = [value |-> FALSE]]
       /\ UNCHANGED <<papers, citations, user_papers, call, inf, req, batch, auth, limiter>>

\* await create_user_paper(db, user_id, str(existing_paper.id)); the insert
\* fails when unique_user_paper already holds the pair.
AddExistingToLibrary(s) ==
    LET sb == proc.submit[s]
        row == UserPaperRow(UUID(sb.user_id), sb.existing_paper.id)
    IN /\ sb.pc = "add"
       /\ IF row \in user_papers
          THEN /\ proc' = [proc EXCEPT !.submit[s].pc = "raised",
                                       !.submit[s].error = "IntegrityError"]
               /\ UNCHANGED user_papers
          ELSE /\ user_papers' = user_papers \cup {row}
               /\ proc' = [proc EXCEPT !.submit[s].pc = "returned",
                                       !.submit[s].paper = sb.existing_paper,
                                       !.submit[s].is_new = [value |-> FALSE]]
       /\ UNCHANGED <<papers, citations, call, inf, req, batch, auth, limiter>>

\* paper = await create_paper(db, paper_data), with processing_status PENDING
CreatePaper(s) ==
    LET sb == proc.submit[s]
    IN /\ sb.pc = "create"
       /\ proc' = IF UniqueViolation(proc.papers, sb.paper_data)
                  THEN [proc EXCEPT !.submit[s].pc = "raised",
                                    !.submit[s].error = "IntegrityError"]
                  ELSE [proc EXCEPT
                           !.papers = Append(@, NewPaper(sb.url, sb.paper_data)),
                           !.submit[s].paper = [id |-> Len(proc.papers) + 1],
                           !.submit[s].pc = "link"]
       /\ UNCHANGED <<papers, citations, user_papers, call, inf, req, batch, auth, limiter>>

\* await create_user_paper(db, user_id, str(paper.id))
LinkNewPaper(s) ==
    LET sb == proc.submit[s]
    IN /\ sb.pc = "link"
       /\ user_papers' = user_papers \cup {UserPaperRow(UUID(sb.user_id), sb.paper.id)}
       /\ proc' = [proc EXCEPT !.submit[s].pc = "queue"]
       /\ UNCHANGED <<papers, citations, call, inf, req, batch, auth, limiter>>

\* process_paper_task.delay(str(paper.id)); return paper, True
QueueProcessing(s) ==
    LET sb == proc.submit[s]
    IN /\ sb.pc = "queue"
       /\ proc' = [proc EXCEPT !.queue = Append(@, Task(sb.paper.id, 0, 0)),
                               !.submit[s].pc = "returned",
                               !.submit[s].is_new = [value |-> TRUE]]
       /\ UNCHANGED <<papers, citations, user_papers, call, inf, req, batch, auth, limiter>>

\* The call has ended; its locals are gone.
SubmitEnds(s) ==
    /\ proc.submit[s].pc \in {"returned", "raised"}
    /\ proc' = [proc EXCEPT !.submit[s] = IdleSubmit]
    /\ UNCHANGED <<papers, citations, user_papers, call, inf, req, batch, auth, limiter>>

\* ------------------------------------------------------------ rate limiter
\* Requests that share one rate-limit key, each in its own wrapper call.
Requests == {"r1", "r2"}

\* requests_per_minute: int = 60
DefaultRequestsPerMinute == 60

HTTP_429_TOO_MANY_REQUESTS == 429

IdleLimitedRequest == [pc |-> "idle", current_requests |-> None, status |-> 0]

\* The key of redis_client: count is its value (None without the key), ttl
\* tells whether it carries an expiry. admitted counts the calls of the
\* wrapped handler since the key last expired.
IdleLimiter ==
    [requests_per_minute |-> DefaultRequestsPerMinute, count |-> None, ttl |-> FALSE,
     admitted |-> 0, redis_failed |-> FALSE,
     request |-> [r \in Requests |-> IdleLimitedRequest]]

\* The wrapper is called with a Request; rate_key is computed.
RateLimited(r) ==
    /\ limiter.request[r].pc = "idle"
    /\ limiter.admitted < MaxAdmitted
    /\ limiter' = [limiter EXCEPT !.request[r] = [IdleLimitedRequest EXCEPT !.pc = "get"]]
    /\ UNCHANGED <<papers, citations, user_papers, call, inf, req, batch, auth, proc>>

\* current_requests = redis_client.get(rate_key)
RedisGet(r) ==
    /\ limiter.request[r].pc = "get"
    /\ limiter' = [limiter EXCEPT !.request[r].pc = "decide",
                                  !.request[r].current_requests = limiter.count]
    /\ UNCHANGED <<papers, citations, user_papers, call, inf, req, batch, auth, proc>>

\* redis_client.incr(rate_key): a key that is missing is created with the
\* value 1 and without an expiry; an expiry that exists is kept.
RedisIncr(count) == IF count = None THEN [value |-> 1] ELSE [value |-> count.value + 1]

\* if current_count >= requests_per_minute
OverLimit(current_count, requests_per_minute) == current_count >= requests_per_minute

\* The rest of the try block and the call of the handler: setex for the
\* first request of a window, 429 at the limit, else incr.
RateDecide(r) ==
    LET rq == limiter.request[r]
    IN /\ rq.pc = "decide"
       /\ limiter' =
              IF rq.current_requests = None
              THEN [limiter EXCEPT !.count = [value |-> 1], !.ttl = TRUE,
                                   !.admitted = @ + 1,
                                   !.request[r].pc = "done",
                                   !.request[r].status = HTTP_200_OK]
              ELSE IF OverLimit(rq.current_requests.value, limiter.requests_per_minute)
              THEN [limiter EXCEPT !.request[r].pc = "done",
                                   !.request[r].status = HTTP_429_TOO_MANY_REQUESTS]
              ELSE [limiter EXCEPT !.count = RedisIncr(@),
                                   !.admitted = @ + 1,
                                   !.request[r].pc = "done",
                                   !.request[r].status = HTTP_200_OK]
       /\ UNCHANGED <<papers, citations, user_papers, call, inf, req, batch, auth, proc>>

\* except redis.RedisError: the error is logged and the handler is called.
RedisRaises(r) ==
    /\ limiter.request[r].pc \in {"get", "decide"}
    /\ limiter' = [limiter EXCEPT !.redis_failed = TRUE,
                                  !.admitted = @ + 1,
                                  !.request[r].pc = "done",
                                  !.request[r].status = HTTP_200_OK]
    /\ UNCHANGED <<papers, citations, user_papers, call, inf, req, batch, auth, proc>>

\* The expiry set by setex is reached: the key is gone and a window begins.
KeyExpires ==
    /\ limiter.count # None /\ limiter.ttl
    /\ limiter' = [limiter EXCEPT !.count = None, !.ttl = FALSE, !.admitted = 0]
    /\ UNCHANGED <<papers, citations, user_papers, call, inf, req, batch, auth, proc>>

\* The response has been sent.
LimitedRequestEnds(r) ==
    /\ limiter.request[r].pc = "done"
    /\ limiter' = [limiter EXCEPT !.request[r] = IdleLimitedRequest]
    /\ UNCHANGED <<papers, citations, user_papers, call, inf, req, batch, auth, proc>>

\* ----------------------------------------------------------- specification
BoundedStores ==
    {[papers |-> [id \in PaperIds |-> PaperRow(0, None)], citations |-> cs] :
        cs \in SubsetsUpTo(CitationRowsOver(PaperIds), MaxCitations)}

Stores ==
    BoundedStores \cup {[papers |-> ScenarioPapers, citations |-> ScenarioCitations],
                        [papers |-> CyclePapers, citations |-> CycleCitations]}

Init ==
    /\ \E s \in Stores : papers = s.papers /\ citations = s.citations
    /\ user_papers = {}
    /\ call = [c \in CallIds |-> IdleCall]
    /\ inf = IdleInfluence
    /\ req = IdleRequest
    /\ batch = IdleBatch
    /\ auth = IdleAuth
    /\ proc = IdleProc
    /\ limiter = IdleLimiter

\* The arguments of a call: the bounded ranges depth >= 0 and max_papers >= 1,
\* the scenario's call, and calls outside those ranges (the builder checks
\* neither argument).
Arguments ==
    {[center |-> p, depth |-> d, max_papers |-> m] :
        p \in RequestIds, d \in 0..MaxDepth, m \in 1..MaxMaxPapers}
    \cup {ScenarioInput}
    \cup {[center |-> p, depth |-> -1, max_papers |-> 1] : p \in RequestIds}
    \cup {[center |-> p, depth |-> 1, max_papers |-> 0] : p \in RequestIds}

Start(c) ==
    \E a \in Arguments : BuildCitationNetwork(c, a.center, a.depth, a.max_papers)

Step(c) ==
    \/ GetCenterPaper(c)
    \/ WhileIteration(c)
    \/ WhileExit(c)
    \/ QueryRaises(c)
    \/ ConstructNetwork(c)

\* One call of the builder on a store that stays as it is.
Next == Start("first") \/ Step("first")

Spec == Init /\ [][Next]_vars

\* Stores for the influence calculator: the bounded stores with every
\* citation_count equal to the number of rows citing the paper, the star
\* stores (paper 1 cited by k papers with the given counts), the store of the
\* example counts, the cycle store and the large store.
CountedStore(cs) ==
    [papers |-> [id \in PaperIds |->
                    PaperRow(Cardinality({c \in cs : c.cited_paper_id = id}), None)],
     citations |-> cs]

StarStore(counts) ==
    [papers |-> [id \in 1..(Len(counts) + 1) |->
                    PaperRow(IF id = 1 THEN Len(counts) ELSE counts[id - 1], None)],
     citations |-> {CitationRow(i + 1, 1) : i \in DOMAIN counts}]

NonIncreasing(k) ==
    {s \in [1..k -> 0..MaxCount] : \A i \in 1..(k - 1) : s[i] >= s[i + 1]}

ExampleCounts == <<10, 8, 5, 4, 3>>

\* The large store: paper 1 is cited by the papers 2, 3 and 4, and each of
\* these is cited by the ManyCiters papers 5, 6, ...
LargeStore ==
    [papers |-> [id \in 1..(4 + ManyCiters) |->
                    PaperRow(IF id = 1 THEN 3 ELSE IF id <= 4 THEN ManyCiters ELSE 0, None)],
     citations |-> {CitationRow(i, 1) : i \in 2..4}
                   \cup {CitationRow(j, i) : j \in 5..(4 + ManyCiters), i \in 2..4}]

InfluenceStores ==
    {CountedStore(cs) : cs \in SubsetsUpTo(CitationRowsOver(PaperIds), MaxCitations)}
    \cup UNION {{StarStore(s) : s \in NonIncreasing(k)} : k \in 0..MaxCiters}
    \cup {StarStore(ExampleCounts), [papers |-> CyclePapers, citations |-> CycleCitations],
          LargeStore}

\* Whole days from publication_date to now: a date in the future, today, the
\* days around one year and around two years.
PublicationDays == {-1, 0, 364, 365, 729, 730}

InfluenceInit ==
    /\ \E s \in InfluenceStores,
          days \in {[days |-> d] : d \in PublicationDays} \cup {None} :
          /\ papers = [id \in DOMAIN s.papers |->
                          [s.papers[id] EXCEPT !.publication_days = days]]
          /\ citations = s.citations
    /\ user_papers = {}
    /\ call = [c \in CallIds |-> IdleCall]
    /\ inf = IdleInfluence
    /\ req = IdleRequest
    /\ batch = IdleBatch
    /\ auth = IdleAuth
    /\ proc = IdleProc
    /\ limiter = IdleLimiter

InfluenceStart ==
    \E p \in {0} \cup {q \in DOMAIN papers : Cardinality(CitingCitations(q)) <= MaxRows} :
        CalculatePaperInfluence(p)

InfluenceStep ==
    \/ InfluenceGetPaper
    \/ InfluenceCount
    \/ InfluenceHIndex
    \/ InfluenceReturn
    \/ InfluenceQueryRaises

InfluenceNext == InfluenceStart \/ InfluenceStep

InfluenceSpec == InfluenceInit /\ [][InfluenceNext]_vars

\* One call of either service on a store: the builder or the calculator.
ServiceNext ==
    \/ (inf.pc = "idle" /\ Next)
    \/ (call["first"].pc = "idle" /\ InfluenceNext)

ServiceSpec == Init /\ [][ServiceNext]_vars

\* The endpoints: a store, a library of at most MaxLibrary rows, one request.
ApiInit ==
    /\ \E s \in Stores : papers = s.papers /\ citations = s.citations
    /\ user_papers \in SubsetsUpTo({UserPaperRow(u, p) : u \in Users, p \in DOMAIN papers},
                                  MaxLibrary)
    /\ call = [c \in CallIds |-> IdleCall]
    /\ inf = IdleInfluence
    /\ req = IdleRequest
    /\ batch = IdleBatch
    /\ auth = IdleAuth
    /\ proc = IdleProc
    /\ limiter = IdleLimiter

\* The query parameters of a network request: the defaults, and values the
\* endpoint accepts as they are.
ApiArguments ==
    {[depth |-> DefaultDepth, max_papers |-> DefaultMaxPapers],
     [depth |-> 1, max_papers |-> 1],
     [depth |-> -1, max_papers |-> DefaultMaxPapers],
     [depth |-> DefaultDepth, max_papers |-> 0]}

ApiRequest ==
    \E u \in Users, p \in {0} \cup DOMAIN papers :
        \/ \E a \in ApiArguments : GetCitationNetwork(u, p, a.depth, a.max_papers)
        \/ GetPaperInfluence(u, p)

ApiNext ==
    \/ ApiRequest
    \/ CheckAccess
    \/ GetUserPaperRaises
    \/ (req.pc = "service" /\ Step("first"))
    \/ (req.pc = "service" /\ InfluenceStep)
    \/ NetworkRespond
    \/ InfluenceRespond

ApiSpec == ApiInit /\ [][ApiNext]_vars

\* The library endpoint: the scenario store or the cycle store, a library over
\* the papers 1..MaxLibrary + 1, and removal requests one after the other.
LibraryInit ==
    /\ \E s \in {[papers |-> ScenarioPapers, citations |-> ScenarioCitations],
                  [papers |-> CyclePapers, citations |-> CycleCitations]} :
           papers = s.papers /\ citations = s.citations
    /\ user_papers \in SUBSET {UserPaperRow(u, p) : u \in Users, p \in 1..(MaxLibrary + 1)}
    /\ call = [c \in CallIds |-> IdleCall]
    /\ inf = IdleInfluence
    /\ req = IdleRequest
    /\ batch = IdleBatch
    /\ auth = IdleAuth
    /\ proc = IdleProc
    /\ limiter = IdleLimiter

LibraryRequest ==
    \E u \in Users, p \in 0..(MaxLibrary + 1) : RemovePaperFromLibrary(u, p)

LibraryNext ==
    \/ LibraryRequest
    \/ RemoveFromLibrary
    \/ RemoveLookupRaises
    \/ RemoveCommitRaises

LibrarySpec == LibraryInit /\ [][LibraryNext]_vars

\* batch_process_papers on lists of at most MaxPapers papers with distinct ids,
\* with batch_size None (the default) or 1..MaxBatchSize.
PapersData(n) == [k \in 1..n |-> [id |-> 100 + n - k]]

BatchStart ==
    \E n \in 0..MaxPapers,
       batch_size \in {None} \cup {[value |-> b] : b \in 1..MaxBatchSize} :
        BatchProcessPapers(PapersData(n), batch_size)

BatchNext ==
    \/ BatchStart
    \/ ForBatch
    \/ \E j \in 1..MaxPapers : TaskCompletes(j)
    \/ GatherReturns
    \/ BatchReturn

BatchInit == Init /\ citations = {}

BatchSpec == BatchInit /\ [][BatchNext]_vars

\* The auth layer: logins, refreshes and bearer requests one after the other,
\* each presenting an issued token or a string that is no token.
AuthLogin == \E u \in Users, password_ok \in BOOLEAN : LoginJson(u, password_ok)

AuthRefresh ==
    \E token \in auth.issued \cup {InvalidToken}, jwt_defines_JWTError \in BOOLEAN :
        RefreshToken(token, jwt_defines_JWTError)

AuthBearer ==
    \E endpoint \in BearerEndpoints, token \in auth.issued \cup {InvalidToken},
       jwt_defines_JWTError \in BOOLEAN :
        BearerRequest(endpoint, token, jwt_defines_JWTError)

AuthExpire == \E token \in auth.issued : Expire(token)

AuthNext == AuthLogin \/ AuthRefresh \/ AuthBearer \/ AuthExpire

AuthSpec == BatchInit /\ [][AuthNext]_vars

\* The same call made again, once the first has ended, with the same arguments
\* on the same store.
StartAgain(c) ==
    /\ call["first"].pc \in {"returned", "raised"}
    /\ BuildCitationNetwork(c, UUID(call["first"].center_paper_id),
                            call["first"].depth, call["first"].max_papers)

RepeatNext == Next \/ StartAgain("second") \/ Step("second")

RepeatSpec == Init /\ [][RepeatNext]_vars

\* Two calls on the one citation_service instance, their steps interleaved in
\* any way, on the scenario store or the cycle store, which stays as it is.
ConcurrentInit == Init /\ citations \in {ScenarioCitations, CycleCitations}

ConcurrentArguments ==
    {[center |-> p, depth |-> d, max_papers |-> m] :
        p \in DOMAIN papers, d \in {1, MaxDepth}, m \in {MaxMaxPapers}}

ConcurrentStart(c) ==
    \E a \in ConcurrentArguments : BuildCitationNetwork(c, a.center, a.depth, a.max_papers)

ConcurrentNext == \E c \in CallIds : ConcurrentStart(c) \/ Step(c)

ConcurrentSpec == ConcurrentInit /\ [][ConcurrentNext]_vars

\* The while loop runs on: no await suspends it, every step it can take is taken.
\* The four citation endpoints with a library that changes: requests, library
\* additions and removals follow one another on the scenario or the cycle
\* store, over the papers 0..MaxLibrary + 1.
AccessInit ==
    /\ LibraryInit
    /\ user_papers = {}

AccessArguments == {[depth |-> 1, max_papers |-> MaxLibrary + 1, limit |-> l] : l \in {1, DefaultLimit}}

AccessRequest ==
    \E u \in Users, p \in 0..(MaxLibrary + 1), a \in AccessArguments :
        \/ GetCitationNetwork(u, p, a.depth, a.max_papers)
        \/ GetCitingPapers(u, p, a.limit)
        \/ GetReferencedPapers(u, p, a.limit)
        \/ GetPaperInfluence(u, p)

AccessAdd ==
    \E u \in Users, p \in 1..(MaxLibrary + 1) : AddPaperToLibrary(u, p)

AccessRemove ==
    \E u \in Users, p \in 1..(MaxLibrary + 1) : req.pc = "idle" /\ RemovePaperFromLibrary(u, p)

AccessNext ==
    \/ AccessRequest
    \/ AccessAdd
    \/ AccessRemove
    \/ RemoveFromLibrary
    \/ CheckAccess
    \/ GetUserPaperRaises
    \/ (req.pc = "service" /\ Step("first"))
    \/ (req.pc = "service" /\ InfluenceStep)
    \/ NetworkRespond
    \/ InfluenceRespond
    \/ ListRespond
    \/ ListQueryRaises
    \/ RequestEnds

AccessSpec == AccessInit /\ [][AccessNext]_vars

\* process_paper_task on one worker: one Paper row, as a submission or an
\* earlier failed attempt left it, and one message on the queue, for that
\* paper or for a paper that does not exist.
ContentPapers ==
    LET pdf == NewPaper(PdfUrl, PaperData(PdfUrl))
        arxiv == NewPaper(ArxivUrl, PaperData(ArxivUrl))
    IN {pdf, arxiv,
        [pdf EXCEPT !.full_text = "F"],
        [pdf EXCEPT !.pdf_url = None],
        [pdf EXCEPT !.title = "", !.pdf_url = None],
        [arxiv EXCEPT !.processing_status = FAILED,
                      !.processing_error = [text |-> "AI request failed"]]}

ContentInit ==
    /\ papers = [id \in PaperIds |-> PaperRow(0, None)]
    /\ citations = {}
    /\ user_papers = {}
    /\ call = [c \in CallIds |-> IdleCall]
    /\ inf = IdleInfluence
    /\ req = IdleRequest
    /\ batch = IdleBatch
    /\ auth = IdleAuth
    /\ limiter = IdleLimiter
    /\ \E paper \in ContentPapers, paper_id \in 1..2 :
           proc = [IdleProc EXCEPT !.papers = <<paper>>,
                                   !.queue = <<Task(paper_id, 0, 0)>>]

ContentStep(w) ==
    \/ ContentGetPaper(w)
    \/ ContentMarkProcessing(w)
    \/ ContentExtract(w)
    \/ ContentAnalyse(w)
    \/ ContentSave(w)
    \/ ContentComplete(w)
    \/ ContentHandler(w)

ContentNext ==
    \/ \E k \in 1..MaxQueue : TaskReceived("w1", k)
    \/ OpenSession("w1")
    \/ SessionRaises("w1")
    \/ ContentStep("w1")
    \/ TaskReturns("w1")
    \/ TaskExcept("w1")

ContentSpec == ContentInit /\ [][ContentNext]_vars

\* Submissions of one URL by one user, one call at a time (the user's row
\* exists whenever the paper does, so the call never adds a row for an
\* existing paper), the beat task and two workers.
SubmitStep(s) ==
    \/ ExtractMetadata(s)
    \/ FindExisting(s)
    \/ LookupLibrary(s)
    \/ AddExistingToLibrary(s)
    \/ CreatePaper(s)
    \/ LinkNewPaper(s)
    \/ QueueProcessing(s)
    \/ SubmitEnds(s)

PipelineNext ==
    \/ ProcessPaperFromUrl("s1", PdfUrl, "alice")
    \/ ExtractMetadata("s1")
    \/ FindExisting("s1")
    \/ LookupLibrary("s1")
    \/ CreatePaper("s1")
    \/ LinkNewPaper("s1")
    \/ QueueProcessing("s1")
    \/ SubmitEnds("s1")
    \/ ProcessPendingPapers
    \/ \E w \in Workers :
           \/ \E k \in 1..(MaxQueue + MaxSubmitted) : TaskReceived(w, k)
           \/ OpenSession(w)
           \/ ContentStep(w)
           \/ TaskReturns(w)

PipelineSpec == BatchInit /\ [][PipelineNext]_vars

\* Two process_paper_from_url calls whose steps interleave.
SubmitNext ==
    \E s \in Submitters :
        \/ \E url \in Urls, user \in Users : ProcessPaperFromUrl(s, url, user)
        \/ SubmitStep(s)

SubmitSpec == BatchInit /\ [][SubmitNext]_vars

\* The rate limiter of one key: concurrent requests and the expiry of the key.
LimiterInit ==
    /\ papers = [id \in PaperIds |-> PaperRow(0, None)]
    /\ citations = {}
    /\ user_papers = {}
    /\ call = [c \in CallIds |-> IdleCall]
    /\ inf = IdleInfluence
    /\ req = IdleRequest
    /\ batch = IdleBatch
    /\ auth = IdleAuth
    /\ proc = IdleProc
    /\ \E n \in 1..MaxRequestsPerMinute :
           limiter = [IdleLimiter EXCEPT !.requests_per_minute = n]

LimiterNext ==
    \/ KeyExpires
    \/ \E r \in Requests :
           \/ RateLimited(r)
           \/ RedisGet(r)
           \/ RateDecide(r)
           \/ RedisRaises(r)
           \/ LimitedRequestEnds(r)

LimiterSpec == LimiterInit /\ [][LimiterNext]_vars

LiveSpec == Spec /\ WF_vars(Next)

\* ------------------------------------------------------------ the network
\* The loop has ended: nodes and edges are the lists handed to CitationNetwork.
Built(c) == call[c].pc = "construct"

InRange(c) == call[c].depth >= 0 /\ call[c].max_papers >= 1

NodeIds(c) == DictKeys(call[c].nodes)
NodeSet(c) == {call[c].nodes[i] : i \in DOMAIN call[c].nodes}
EdgeSet(c) == {call[c].edges[i] : i \in DOMAIN call[c].edges}

\* Papers within undirected citation distance d of paper p.
RECURSIVE Within(_, _)
Within(p, d) ==
    IF d < 0 THEN {}
    ELSE IF d = 0 THEN {p}
    ELSE LET inner == Within(p, d - 1)
         IN inner \cup {c.citing_paper_id : c \in {x \in citations : x.cited_paper_id \in inner}}
                  \cup {c.cited_paper_id : c \in {x \in citations : x.citing_paper_id \in inner}}

\* Undirected citation distance of q from p, for q within distance d of p.
Distance(p, q, d) == CHOOSE k \in 0..d : q \in Within(p, k) /\ q \notin Within(p, k - 1)

\* C1: for depth >= 0 and max_papers >= 1 the network has at most max_papers
\* nodes and no node is tagged with a depth above depth.
C1_Bound ==
    \A c \in CallIds :
        Built(c) /\ InRange(c) =>
            /\ Len(call[c].nodes) <= call[c].max_papers
            /\ \A n \in NodeSet(c) : n.depth <= call[c].depth

\* The cap stops the traversal with neighbours still queued, and a node sits
\* at the depth limit.
C1_Witness ==
    /\ Built("first") /\ InRange("first")
    /\ Len(call["first"].nodes) = call["first"].max_papers
    /\ call["first"].queue # <<>>
    /\ \E n \in NodeSet("first") : n.depth = call["first"].depth /\ n.depth > 0

\* C2: every edge of the network has its source and its target among the nodes.
C2_Closure ==
    \A c \in CallIds :
        Built(c) /\ InRange(c) =>
            \A e \in EdgeSet(c) : e.source \in NodeIds(c) /\ e.target \in NodeIds(c)

\* C3: exactly one node has is_center; it is the center paper, at depth 0.
C3_Centrality ==
    \A c \in CallIds :
        Built(c) /\ InRange(c) =>
            /\ Cardinality({i \in DOMAIN call[c].nodes : call[c].nodes[i].is_center}) = 1
            /\ \A n \in NodeSet(c) :
                   n.is_center => n.id = call[c].center_paper_id /\ n.depth = 0

\* The center cites itself and lies on a cycle through another accepted paper.
C3_Witness ==
    LET center == UUID(call["first"].center_paper_id)
    IN /\ Built("first") /\ InRange("first")
       /\ CitationRow(center, center) \in citations
       /\ \E q \in PaperIds :
              /\ q # center
              /\ CitationRow(center, q) \in citations
              /\ CitationRow(q, center) \in citations
              /\ str(q) \in NodeIds("first")
       /\ call["first"].depth >= 2

\* C4: when the papers within distance depth of the center are at most
\* max_papers, the nodes are exactly those papers tagged with their distance and
\* the edges are, as a set, the citations with an endpoint at distance < depth;
\* depth 0 gives the center alone and no edge; the scenario gives A(0), B(1),
\* C(1), D(2) and B->A, C->A, D->B.
C4_ExactNeighbourhood ==
    \A c \in CallIds :
        LET center == UUID(call[c].center_paper_id)
            ball == Within(center, call[c].depth)
            inner == Within(center, call[c].depth - 1)
        IN Built(c) /\ InRange(c) /\ Cardinality(ball) <= call[c].max_papers =>
            /\ Len(call[c].nodes) = Cardinality(ball)
            /\ {<<UUID(n.id), n.depth>> : n \in NodeSet(c)}
                   = {<<q, Distance(center, q, call[c].depth)>> : q \in ball}
            /\ EdgeSet(c) =
                   {Edge(str(x.citing_paper_id), str(x.cited_paper_id), x) :
                       x \in {y \in citations : y.citing_paper_id \in inner
                                                \/ y.cited_paper_id \in inner}}
            /\ call[c].depth = 0 =>
                   /\ call[c].edges = <<>>
                   /\ Len(call[c].nodes) = 1
                   /\ call[c].nodes[1].id = call[c].center_paper_id
            /\ ( /\ citations = ScenarioCitations
                 /\ DOMAIN papers = DOMAIN ScenarioPapers
                 /\ center = ScenarioInput.center
                 /\ call[c].depth = ScenarioInput.depth
                 /\ call[c].max_papers = ScenarioInput.max_papers ) =>
                   /\ {<<UUID(n.id), n.depth>> : n \in NodeSet(c)}
                          = {<<1, 0>>, <<2, 1>>, <<3, 1>>, <<4, 2>>}
                   /\ EdgeSet(c) = {Edge(str(2), str(1), CitationRow(2, 1)),
                                    Edge(str(3), str(1), CitationRow(3, 1)),
                                    Edge(str(4), str(2), CitationRow(4, 2))}

\* The scenario's call has built its network.
C4_Witness ==
    /\ Built("first")
    /\ citations = ScenarioCitations
    /\ DOMAIN papers = DOMAIN ScenarioPapers
    /\ UUID(call["first"].center_paper_id) = ScenarioInput.center
    /\ call["first"].depth = ScenarioInput.depth
    /\ call["first"].max_papers = ScenarioInput.max_papers
    /\ Len(call["first"].nodes) = 4

\* C5: two calls with the same arguments on the same store build the same set
\* of nodes and the same set of edges, whatever order the rows come in.
C5_Determinism ==
    ( /\ Built("second")
      /\ call["first"].pc \in {"returned", "raised"}
      /\ call["first"].error \notin {"ValueError", "StoreFailure"}
      /\ InRange("first") ) =>
        /\ NodeSet("first") = NodeSet("second")
        /\ EdgeSet("first") = EdgeSet("second")

\* C6: every call ends, and a paper is accepted at most once: nodes only grows,
\* by one paper that was not visited before.
Ended(c) == call[c].pc \in {"returned", "raised"}

C6_Termination ==
    /\ <>Ended("first")
    /\ [][\A c \in CallIds :
             call'[c].pc = "loop" /\ call[c].pc = "loop" /\ call'[c].nodes # call[c].nodes =>
                 /\ Len(call'[c].nodes) = Len(call[c].nodes) + 1
                 /\ SubSeq(call'[c].nodes, 1, Len(call[c].nodes)) = call[c].nodes
                 /\ call'[c].nodes[Len(call'[c].nodes)].id \notin call[c].visited
                 /\ call[c].visited \subseteq call'[c].visited]_vars

\* A call on a store with a self-citation and a mutual citation has ended
\* after reading citation rows.
C6_Witness ==
    /\ Ended("first")
    /\ call["first"].citation_queries >= 4
    /\ \E p \in PaperIds, q \in PaperIds :
          /\ p # q
          /\ CitationRow(p, p) \in citations
          /\ CitationRow(p, q) \in citations
          /\ CitationRow(q, p) \in citations

\* C7: when the center paper is not in the store the call raises, before any
\* traversal step: nothing is queued, visited, built or read from the citations.
C7_NotFound ==
    \A c \in CallIds :
        UUID(call[c].center_paper_id) \notin DOMAIN papers /\ call[c].pc \notin {"idle", "start"} =>
            /\ call[c].pc = "raised"
            /\ call[c].error \in {"ValueError", "StoreFailure"}
            /\ call[c].nodes = <<>> /\ call[c].edges = <<>>
            /\ call[c].queue = <<>> /\ call[c].visited = {}
            /\ call[c].citation_queries = 0

\* The paper lookup found nothing and the call raised ValueError.
C7_Witness ==
    /\ call["first"].pc = "raised"
    /\ call["first"].error = "ValueError"
    /\ UUID(call["first"].center_paper_id) \notin DOMAIN papers

\* -------------------------------------------------------------- influence
\* C9: a call that cannot compute the metrics does not return normally: every
\* value calculate_paper_influence returns is the metrics record of a paper
\* that is in the store.
C9_FailsWithoutResult ==
    inf.pc = "returned" =>
        /\ inf.result.keys = MetricKeys
        /\ UUID(inf.paper_id) \in DOMAIN papers

\* The largest i such that the i-th largest count is >= i, that is, such that
\* at least i of the counts are >= i; 0 if there is none.
ReferenceHIndex(counts) ==
    LET reached == {i \in 1..Len(counts) :
                       Cardinality({j \in DOMAIN counts : counts[j] >= i}) >= i}
    IN IF reached = {} THEN 0 ELSE CHOOSE i \in reached : \A k \in reached : k <= i

\* C10: the h_index computed by the early-exit loop over the counts sorted
\* descending is the reference h-index of the citers' counts; the counts
\* 10, 8, 5, 4, 3 give 4.
C10_HIndex ==
    /\ inf.pc = "scoring" =>
          inf.h_index = ReferenceHIndex(inf.citing_citation_counts)
    /\ inf.pc = "returned" /\ inf.result.keys = MetricKeys =>
          /\ inf.result.h_index = ReferenceHIndex(inf.citing_citation_counts)
          /\ SortReverse(inf.citing_citation_counts) = ExampleCounts =>
                 inf.result.h_index = 4

\* The metrics of the paper whose citers have the counts 10, 8, 5, 4, 3, read
\* in another order than the sorted one, are returned.
C10_Witness ==
    /\ inf.pc = "returned"
    /\ inf.result.keys = MetricKeys
    /\ SortReverse(inf.citing_citation_counts) = ExampleCounts
    /\ inf.citing_citation_counts # ExampleCounts
    /\ inf.result.h_index = 4

\* C11: the returned influence_score is min((0.5 direct + 0.3 second_order
\* + 0.2 h_index) / 100, 1.0), in thousandths min(5 direct + 3 second_order
\* + 2 h_index, 1000), so it lies in [0, 1]; a paper that no row cites gets
\* direct_citations 0, h_index 0 and influence_score 0.
C11_InfluenceScore ==
    inf.pc = "returned" /\ inf.result.keys = MetricKeys =>
        LET r == inf.result
            weighted == 5 * r.direct_citations + 3 * r.second_order_citations
                        + 2 * r.h_index
        IN /\ r.influence_score = (IF weighted >= 1000 THEN 1000 ELSE weighted)
           /\ r.influence_score >= 0 /\ r.influence_score <= 1000
           /\ CitingCitations(UUID(inf.paper_id)) = {} =>
                  /\ r.direct_citations = 0
                  /\ r.h_index = 0
                  /\ r.influence_score = 0
                  /\ r.citation_rate_per_year.num = 0

\* The weighted sum of the returned counts is above 100 and the score is 1.0.
C11_Witness ==
    /\ inf.pc = "returned"
    /\ inf.result.keys = MetricKeys
    /\ 5 * inf.result.direct_citations + 3 * inf.result.second_order_citations
           + 2 * inf.result.h_index > 1000
    /\ inf.result.influence_score = 1000

\* The number of pairs (a, b) with a row a -> b and a row b -> p.
CitationsOfCiters(p) ==
    Cardinality({ab \in (DOMAIN papers) \X (DOMAIN papers) :
                    /\ CitationRow(ab[1], ab[2]) \in citations
                    /\ CitationRow(ab[2], p) \in citations})

\* C12: direct_citations is the number of rows whose cited paper is P, and
\* second_order_citations the number of rows whose cited paper is a citer of
\* P, each row once: a paper citing k citers of P contributes k, and the rows
\* by which P cites its own citers are among them.
C12_Counts ==
    inf.pc = "returned" /\ inf.result.keys = MetricKeys =>
        LET p == UUID(inf.paper_id)
        IN /\ inf.result.direct_citations
                  = Cardinality({a \in DOMAIN papers : CitationRow(a, p) \in citations})
           /\ inf.result.second_order_citations = CitationsOfCiters(p)

\* P cites two of its own citers, one of them P itself.
C12_Witness ==
    LET p == UUID(inf.paper_id)
    IN /\ inf.pc = "returned"
       /\ inf.result.keys = MetricKeys
       /\ CitationRow(p, p) \in citations
       /\ \E q \in DOMAIN papers :
              /\ q # p
              /\ CitationRow(p, q) \in citations
              /\ CitationRow(q, p) \in citations
       /\ inf.result.second_order_citations > inf.result.direct_citations

\* C13: citation_rate_per_year is direct_citations / publication_age_years
\* when the age is positive and 0 otherwise (no date, less than a year, a date
\* in the future); the divisor is never 0 and the rate never negative.
C13_CitationRate ==
    inf.pc = "returned" /\ inf.result.keys = MetricKeys =>
        LET r == inf.result
            rate == r.citation_rate_per_year
            days == papers[UUID(inf.paper_id)].publication_days
        IN /\ rate.den # 0
           /\ rate.num >= 0 /\ rate.den > 0
           /\ r.publication_age_years > 0 =>
                  rate.num * r.publication_age_years = r.direct_citations * rate.den
           /\ r.publication_age_years <= 0 => rate.num = 0
           /\ (days = None \/ days.days < 365) => rate.num = 0

\* A cited paper whose publication date lies in the future has the rate 0.
C13_Witness ==
    /\ inf.pc = "returned"
    /\ inf.result.keys = MetricKeys
    /\ inf.result.direct_citations > 0
    /\ papers[UUID(inf.paper_id)].publication_days # None
    /\ papers[UUID(inf.paper_id)].publication_days.days < 0
    /\ inf.result.publication_age_years < 0
    /\ inf.result.citation_rate_per_year.num = 0

\* C14: no step of build_citation_network or calculate_paper_influence,
\* succeeding or failing, changes a Paper row (citation_count and
\* influence_score included) or a Citation row.
C14_ReadOnly == [][papers' = papers /\ citations' = citations]_vars

\* The calculator has returned a positive score for a cited paper whose cached
\* influence_score and citation_count are still 0.
C14_Witness ==
    /\ inf.pc = "returned"
    /\ inf.result.keys = MetricKeys
    /\ inf.result.influence_score > 0
    /\ inf.result.direct_citations > 0
    /\ papers[UUID(inf.paper_id)].influence_score = 0
    /\ papers[UUID(inf.paper_id)].citation_count = 0

\* What a call builds when it runs alone: the traversal computed on values of
\* its own, from the arguments and the store. t is the traversal state;
\* TraversalSteps gives the states one iteration can lead to, one for each
\* order in which the store can return the rows.
RECURSIVE AddRows(_, _, _, _, _)
AddRows(rows, citing, id, d, t) ==
    IF rows = <<>> THEN t
    ELSE LET other == str(IF citing THEN Head(rows).citing_paper_id
                                    ELSE Head(rows).cited_paper_id)
             e == IF citing THEN Edge(other, id, Head(rows)) ELSE Edge(id, other, Head(rows))
         IN AddRows(Tail(rows), citing, id, d,
                [t EXCEPT !.edges = Append(@, e),
                          !.queue = IF other \in t.visited THEN @
                                    ELSE Append(@, <<other, d + 1>>)])

TraversalSteps(t, depth) ==
    LET id == t.queue[1][1]
        d == t.queue[1][2]
        rest == [t EXCEPT !.queue = Tail(@)]
        seen == [rest EXCEPT !.visited = @ \cup {id}]
        added == [seen EXCEPT !.nodes = Append(@, [id |-> id, depth |-> d])]
    IN IF id \in t.visited \/ d > depth THEN {rest}
       ELSE IF UUID(id) \notin DOMAIN papers THEN {seen}
       ELSE IF d >= depth THEN {added}
       ELSE {AddRows(outgoing, FALSE, id, d, AddRows(incoming, TRUE, id, d, added)) :
                incoming \in AllOrders({c \in citations : c.cited_paper_id = UUID(id)}),
                outgoing \in AllOrders({c \in citations : c.citing_paper_id = UUID(id)})}

RECURSIVE TraversalResults(_, _, _)
TraversalResults(t, depth, max_papers) ==
    IF t.queue = <<>> \/ Len(t.nodes) >= max_papers
    THEN {[nodes |-> t.nodes, edges |-> t.edges]}
    ELSE UNION {TraversalResults(u, depth, max_papers) : u \in TraversalSteps(t, depth)}

AloneResults(center_paper_id, depth, max_papers) ==
    TraversalResults([nodes |-> <<>>, edges |-> <<>>, visited |-> {},
                      queue |-> <<(<<center_paper_id, 0>>)>>], depth, max_papers)

\* C15: however the steps of two calls interleave, each call builds a network
\* it can build when it runs alone with the same arguments on the same store.
C15_Isolation ==
    \A c \in CallIds :
        Built(c) =>
            [nodes |-> [i \in DOMAIN call[c].nodes |->
                           [id |-> call[c].nodes[i].id, depth |-> call[c].nodes[i].depth]],
             edges |-> call[c].edges]
                \in AloneResults(call[c].center_paper_id, call[c].depth, call[c].max_papers)

\* One call has built its network while the other, started from another
\* center, is inside its loop, and both have visited a common paper.
C15_Witness ==
    /\ Built("first")
    /\ call["second"].pc = "loop"
    /\ call["second"].queue # <<>>
    /\ call["first"].visited \cap call["second"].visited # {}
    /\ call["first"].center_paper_id # call["second"].center_paper_id
    /\ Len(call["first"].nodes) >= 2 /\ Len(call["second"].nodes) >= 1

\* -------------------------------------------------------------- endpoints
\* C16: every call the network endpoint makes has depth >= 0 and
\* max_papers >= 1, and every network built for it contains the center node.
C16_InputRange ==
    \A c \in CallIds :
        /\ call[c].pc # "idle" => InRange(c)
        /\ Built(c) => call[c].center_paper_id \in NodeIds(c)

\* C17: a removal deletes the caller's user-paper row for the paper and
\* nothing else: no Paper row, no Citation row and no row of another user or of
\* another paper changes; when the caller has no row for the paper the answer
\* is 404 and nothing changes.
C17_RemoveOnlyRelationship ==
    [][LET row == UserPaperRow(UUID(req.user_id), req.paper_id)
       IN /\ papers' = papers
          /\ citations' = citations
          /\ user_papers' \in {user_papers, user_papers \ {row}}
          /\ (req.pc = "lookup" /\ row \notin user_papers) =>
                 /\ req'.status = HTTP_404_NOT_FOUND
                 /\ user_papers' = user_papers
          /\ user_papers' # user_papers =>
                 req.pc = "lookup" /\ req'.status = HTTP_200_OK]_vars

\* A removal has succeeded for a paper that citations touch and that another
\* user still has in the library.
C17_Witness ==
    LET row == UserPaperRow(UUID(req.user_id), req.paper_id)
    IN /\ req.pc = "responded" /\ req.endpoint = "remove"
       /\ req.status = HTTP_200_OK
       /\ row \notin user_papers
       /\ \E u \in Users : u # row.user_id /\ UserPaperRow(u, row.paper_id) \in user_papers
       /\ req.paper_id \in DOMAIN papers
       /\ CitingCitations(req.paper_id) # {} /\ CitedCitations(req.paper_id) # {}

\* ------------------------------------------------------------------ batch
\* C18: the returned list has one entry per input paper, in input order: the
\* record of the paper when its processing returned one, and an entry with the
\* error and the paper's index in the input list (from 0) when it raised.
C18_BatchResults ==
    batch.pc = "returned" =>
        /\ Len(batch.results) = Len(batch.papers_data)
        /\ \A k \in DOMAIN batch.papers_data :
               LET outcome == batch.batch_results[k]
               IN IF "exception" \in DOMAIN outcome
                  THEN batch.results[k] = [error |-> outcome.exception, paper_index |-> k - 1]
                  ELSE /\ batch.results[k] = outcome
                       /\ batch.results[k].paper_id = batch.papers_data[k].id

\* Four papers in batches of three: the second paper's processing returned,
\* the third's and the fourth's raised, the first's failed inside.
C18_Witness ==
    /\ batch.pc = "returned"
    /\ Len(batch.papers_data) = 4 /\ batch.size = 3
    /\ batch.results[1] = Failed(batch.papers_data[1])
    /\ batch.results[2] = Completed(batch.papers_data[2])
    /\ batch.results[3] = [error |-> Raised.exception, paper_index |-> 2]
    /\ batch.results[4] = [error |-> Raised.exception, paper_index |-> 3]

\* ------------------------------------------------------------------- auth
\* C19: the refresh endpoint answers 200 with a new pair when the token
\* decodes to a payload of type refresh whose user exists and is active, and
\* otherwise answers 401 and issues nothing; a bearer-protected endpoint
\* accepts only a token of type access.
C19_TokenKinds ==
    LET r == auth.request
    IN /\ (r.pc = "responded" /\ r.endpoint = "refresh") =>
              IF /\ r.payload # None
                 /\ r.token.key = "secret_key"
                 /\ r.payload.type = "refresh"
                 /\ r.user # None
                 /\ r.user.is_active
              THEN r.status = HTTP_200_OK /\ r.tokens # None
              ELSE r.status = HTTP_401_UNAUTHORIZED /\ r.tokens = None
       /\ (r.pc = "responded" /\ r.endpoint \in BearerEndpoints /\ r.status = HTTP_200_OK) =>
              r.payload # None /\ r.payload.type = "access"

\* C20: once a logout with access token T has succeeded, no request with T or
\* with the refresh token of T's pair is accepted.
C20_LogoutInvalidates ==
    LET r == auth.request
    IN (r.pc = "responded" /\ r.status = HTTP_200_OK /\ r.endpoint \in {"me", "delete-me", "refresh"}) =>
           \A t \in auth.logged_out :
               ~(r.token.signed.sub = t.signed.sub /\ r.token.signed.pair = t.signed.pair)

GenericDetails == {"Failed to retrieve citation network", "Failed to retrieve paper influence"}

\* C8: a request for a paper id that is not in the store is answered 404, and
\* a request during which a store read raised is answered 500 with one of the
\* fixed details.
C8_ErrorMapping ==
    req.pc = "responded" =>
        /\ req.paper_id \notin DOMAIN papers => req.status = 404
        /\ req.store_failed =>
              /\ req.status = HTTP_500_INTERNAL_SERVER_ERROR
              /\ req.detail \in GenericDetails

\* C21: the traversal is breadth first. The depths of the nodes never decrease
\* in the order the nodes were added, the depths of the queued pairs never
\* decrease from head to tail, and the depth of every node is the undirected
\* citation distance of its paper from the center.
C21_BreadthFirst ==
    \A c \in CallIds :
        LET cl == call[c]
        IN /\ \A i, j \in DOMAIN cl.nodes : i < j => cl.nodes[i].depth <= cl.nodes[j].depth
           /\ \A i, j \in DOMAIN cl.queue : i < j => cl.queue[i][2] <= cl.queue[j][2]
           /\ \A i \in DOMAIN cl.nodes :
                  /\ UUID(cl.nodes[i].id) \in Within(UUID(cl.center_paper_id), cl.depth)
                  /\ cl.nodes[i].depth =
                         Distance(UUID(cl.center_paper_id), UUID(cl.nodes[i].id), cl.depth)

\* The cap has stopped the traversal while one paper is queued at two depths,
\* and a node away from the center has been added.
C21_Witness ==
    /\ Built("first")
    /\ Len(call["first"].nodes) = call["first"].max_papers
    /\ \E n \in NodeSet("first") : n.depth > 0
    /\ \E i, j \in DOMAIN call["first"].queue :
           /\ call["first"].queue[i][1] = call["first"].queue[j][1]
           /\ call["first"].queue[i][2] # call["first"].queue[j][2]

\* C22: every edge stands for a stored citation, with the citing paper as its
\* source and the cited paper as its target whichever direction found it; it
\* carries the citation's strength, the first ContextLimit characters of its
\* context (the empty text when the context is absent) and the type "cites".
C22_EdgesAreCitations ==
    \A c \in CallIds :
        \A i \in DOMAIN call[c].edges :
            LET e == call[c].edges[i]
                citation == CitationRow(UUID(e.source), UUID(e.target))
                stored == context(citation)
            IN /\ citation \in citations
               /\ e.strength = strength(citation)
               /\ e.type = "cites"
               /\ Len(e.context) <= ContextLimit
               /\ stored = None => e.context = <<>>
               /\ stored # None =>
                      \A k \in 1..Len(stored.text) :
                          k <= ContextLimit => k <= Len(e.context) /\ e.context[k] = stored.text[k]

\* The network holds one edge found from its cited end and one found from its
\* citing end, an edge whose context was absent and an edge whose context was
\* cut.
C22_Witness ==
    /\ Built("first")
    /\ \E e \in EdgeSet("first") :
           /\ e.source # e.target
           /\ e.target = call["first"].center_paper_id
    /\ \E e \in EdgeSet("first") :
           /\ e.source # e.target
           /\ e.source = call["first"].center_paper_id
    /\ \E e \in EdgeSet("first") :
           context(CitationRow(UUID(e.source), UUID(e.target))) = None
    /\ \E e \in EdgeSet("first") :
           /\ context(CitationRow(UUID(e.source), UUID(e.target))) # None
           /\ Len(context(CitationRow(UUID(e.source), UUID(e.target))).text) > ContextLimit
           /\ Len(e.context) = ContextLimit

\* C23: a call whose center paper exists and whose reads of the store succeed
\* ends by returning a CitationNetwork: the arguments of CitationNetwork(...)
\* carry the required fields of the three schemas, so the call raises only
\* for a missing center paper or a failed read.
C23_ReturnsNetwork ==
    \A c \in CallIds :
        /\ Built(c) => Validates(call[c])
        /\ call[c].pc = "raised" => call[c].error \in {"ValueError", "StoreFailure"}

\* C27: no two edges of the network have the same source and target, so the
\* number of edges is the number of distinct citations in the network.
C27_EdgesOnce ==
    \A c \in CallIds :
        Built(c) =>
            /\ \A i, j \in DOMAIN call[c].edges :
                   ( /\ call[c].edges[i].source = call[c].edges[j].source
                     /\ call[c].edges[i].target = call[c].edges[j].target ) => i = j
            /\ Len(call[c].edges) = Cardinality(EdgeSet(c))

\* C24: a request to one of the four citation endpoints reaches the citation
\* service only while the requesting user has a user-paper row for the
\* requested paper; without the row the answer is 403 and nothing of the
\* service has run, whatever was added to and removed from the libraries
\* before.
C24_AccessChecked ==
    LET in_library == UserPaperRow(UUID(req.user_id), req.paper_id) \in user_papers
        untouched == call["first"] = IdleCall /\ inf = IdleInfluence /\ req.body = None
    IN req.endpoint \in CitationEndpoints =>
           /\ req.pc = "service" => in_library
           /\ ~untouched => in_library
           /\ req.pc = "responded" /\ ~in_library =>
                  /\ req.status = HTTP_403_FORBIDDEN
                  /\ untouched

\* bob is refused the listing of a paper that is in alice's library and not
\* in his own.
C24_Witness ==
    /\ req.endpoint = "citing" /\ req.pc = "responded"
    /\ req.user_id = str("bob") /\ req.paper_id = 1
    /\ req.status = HTTP_403_FORBIDDEN /\ ~req.store_failed
    /\ UserPaperRow("alice", 1) \in user_papers
    /\ UserPaperRow("bob", 1) \notin user_papers
    /\ UserPaperRow("bob", 2) \in user_papers

\* ------------------------------------------------------- paper processing
\* The Paper row a worker's task is about, when there is one.
WorkerPaper(w) == get_paper_by_id(proc.worker[w].paper_id)

\* C25: for an existing paper process_paper_content does not raise; between
\* its first write and its return the status is PROCESSING; when it has
\* returned the status is COMPLETED with processed_at set and the result is
\* True, or the status is FAILED with processing_error set and the result
\* is False.
C25_ContentOutcome ==
    \A w \in Workers :
        LET wk == proc.worker[w]
            paper == WorkerPaper(w)
        IN paper # None =>
               /\ wk.pc \in {"extract", "analyse", "save", "complete", "handler"} =>
                      paper.processing_status = PROCESSING
               /\ wk.pc = "except" => wk.exc = [text |-> "SessionLocal failed"]
               /\ wk.pc = "returned" =>
                      \/ /\ wk.success = [value |-> TRUE]
                         /\ paper.processing_status = COMPLETED
                         /\ paper.processed_at # None
                      \/ /\ wk.success = [value |-> FALSE]
                         /\ paper.processing_status = FAILED
                         /\ paper.processing_error # None

\* A call has returned False for a paper that had no error before, after its
\* PDF extraction raised.
C25_Witness ==
    /\ proc.worker["w1"].pc = "returned"
    /\ proc.worker["w1"].success = [value |-> FALSE]
    /\ WorkerPaper("w1") # None
    /\ WorkerPaper("w1").processing_error = [text |-> "PDF extraction failed"]

\* C26: a failed attempt of process_paper_task with retries left schedules
\* the retry retries + 1 with the countdown 60 * 2^retries, and the paper's
\* status becomes FAILED only in an attempt that has used up max_retries
\* retries.
C26_RetryBeforeFailed ==
    [][\A w \in Workers :
          LET wk == proc.worker[w]
              failed == \/ wk.pc = "except"
                        \/ wk.pc = "returned" /\ wk.success = [value |-> FALSE]
          IN /\ ( /\ wk.paper_id \in DOMAIN proc.papers
                  /\ proc.papers[wk.paper_id].processing_status # FAILED
                  /\ proc'.papers[wk.paper_id].processing_status = FAILED )
                    => wk.retries = max_retries
             /\ ( /\ failed
                  /\ wk.paper_id \in DOMAIN proc.papers
                  /\ wk.retries < max_retries
                  /\ proc'.worker[w].pc = "idle" )
                    => proc'.queue =
                           Append(proc.queue, Task(wk.paper_id, wk.retries + 1,
                                                   60 * (2 ^ wk.retries)))
      ]_vars

\* C28: at no time do two process_paper_task executions work on the same
\* paper, and a paper whose status is COMPLETED keeps that status and its AI
\* results in every later step.
C28_OneTaskPerPaper ==
    [][/\ \A v, w \in Workers :
              ( /\ proc'.worker[v].pc # "idle"
                /\ proc'.worker[w].pc # "idle"
                /\ proc'.worker[v].paper_id = proc'.worker[w].paper_id ) => v = w
       /\ \A i \in DOMAIN proc.papers :
              proc.papers[i].processing_status = COMPLETED =>
                  /\ proc'.papers[i].processing_status = COMPLETED
                  /\ proc'.papers[i].summary = proc.papers[i].summary
      ]_vars

\* C29: whatever process_paper_from_url calls have run, there is at most one
\* Paper row per URL, per DOI and per arXiv id and at most one queued task per
\* created paper; a call that found an existing paper returns that paper with
\* is_new = False.
C29_SubmitIdempotent ==
    /\ \A i, j \in DOMAIN proc.papers :
           ( \/ proc.papers[i].url = proc.papers[j].url
             \/ proc.papers[i].doi # None /\ proc.papers[i].doi = proc.papers[j].doi
             \/ /\ proc.papers[i].arxiv_id # None
                /\ proc.papers[i].arxiv_id = proc.papers[j].arxiv_id ) => i = j
    /\ \A k, l \in DOMAIN proc.queue :
           proc.queue[k].paper_id = proc.queue[l].paper_id => k = l
    /\ \A s \in Submitters :
           LET sb == proc.submit[s]
           IN sb.pc = "returned" =>
                  /\ UserPaperRow(UUID(sb.user_id), sb.paper.id) \in user_papers
                  /\ sb.existing_paper # None =>
                         sb.paper = sb.existing_paper /\ sb.is_new = [value |-> FALSE]

\* ----------------------------------------------------------- rate limiter
\* C30: while Redis answers, no more than requests_per_minute requests of one
\* key reach the handler between two expirations of the key, a request is
\* refused with 429 only at the limit, and the key always carries an expiry,
\* so that the window ends and the client is admitted again.
C30_RateLimit ==
    /\ ~limiter.redis_failed => limiter.admitted <= limiter.requests_per_minute
    /\ limiter.count # None => limiter.ttl
    /\ \A r \in Requests :
           limiter.request[r].status = HTTP_429_TOO_MANY_REQUESTS =>
               /\ limiter.request[r].current_requests # None
               /\ limiter.request[r].current_requests.value >= limiter.requests_per_minute

====
